---- MODULE Spec2Model ----
(***************************************************************************)
(* Model of the retrieval / synthesis / validation orchestration core of   *)
(* the Bluetooth RAG agent: the chat handler (index.ts), the orchestrator  *)
(* loop (agents/orchestrator.ts), the quality validator                    *)
(* (agents/synthesisAgent.ts) and the correction cache (corrections.ts).   *)
(*                                                                         *)
(* Text is modelled as sequences of tokens.  A line is a sequence of       *)
(* tokens, an answer is a sequence of lines (the text split at newlines).  *)
(* A citation token "[#3]" or "[W2]" is written by its ref, "#3" or "W2".  *)
(* All tokens are lower case, so the case-insensitive matches of the code  *)
(* are plain equalities here.                                              *)
(***************************************************************************)
EXTENDS Integers, Sequences, FiniteSets, TLC

VARIABLES
    \* ---- QualityValidationAgent.execute called on its own
    vIn,            \* <<>> or <<[answer, contextBlocks, notes]>>: the last call's input
    vOut,           \* <<>> or <<result>>: what that call returned
    \* ---- one chat request (handleChat + AgentOrchestrator.processQuery)
    pc,             \* position of the request
    query,          \* userQuery of the request
    cacheHit,       \* result of checkCorrectionCache for the request
    MAX_ITER2,      \* MAX_ITER of processQuery, in half units (2 * MAX_ITER)
    iter,           \* loop counter of processQuery
    retrieval,      \* <<>> (undefined) or <<RetrievalResult>>
    synthesis,      \* <<>> (null) or <<[answer, synthesisNotes]>>
    validation,     \* <<>> (null) or <<validator result>>
    feedback,       \* feedback carried into the next synthesis
    calls,          \* per request: calls made to each agent, stages that threw
    response,       \* <<>> or <<the payload handed to the caller>>
    \* ---- correction cache: the two stores and the last operation on them
    kv,             \* CORRECTION_QA_KV: key -> <<>> or <<[val, ttl]>>
    index,          \* CORRECTION_QA_INDEX: vector id -> <<>> or <<metadata>>
    lastOp,         \* what the last cache operation was given and returned
    committed,      \* key -> <<>> or <<correctAnswer of the last store that succeeded,
                    \*        with no store or delete of the key since>>
    clean,          \* key -> TRUE when the record under the key exists and every
                    \*        store since it was created returned success
    \* ---- the bindings of the deployment
    env,            \* [CORRECTION_QA_KV, CORRECTION_QA_INDEX]: is the binding there
    \* ---- normalizeQuery called on its own
    nIn,            \* the string it is given
    nOut,           \* <<>> or <<what it returned>>
    \* ---- lookups of one correction that run concurrently
    lk,             \* lookup -> [pc, read]: its position and the record it read
    \* ---- pickContext and the retrieval agent called on their own
    sel,            \* <<>> or <<[candidates, reranked, topRerank, selected]>>
    ret,            \* <<>> or <<[texts, embeds, lists, out]>>
    \* ---- embedTextSingle called on its own
    emb,            \* <<>> or <<[tries, lastRest, called, out]>>
    \* ---- the context window built on its own
    win             \* <<>> or <<[topics, called, out]>>

valVars   == <<vIn, vOut>>
chatVars  == <<pc, query, cacheHit, MAX_ITER2, iter, retrieval, synthesis,
               validation, feedback, calls, response>>
cacheVars == <<kv, index, lastOp, committed, clean>>
sideVars  == <<env, nIn, nOut, lk, sel, ret, emb, win>>
vars      == <<valVars, chatVars, cacheVars, sideVars>>

(***************************************************************************)
(* Generic helpers on sequences.                                           *)
(***************************************************************************)
Range(s) == {s[i] : i \in DOMAIN s}

SeqsUpTo(S, n) == UNION {[1..k -> S] : k \in 0..n}

RECURSIVE Concat(_)
Concat(ss) == IF ss = <<>> THEN <<>> ELSE Head(ss) \o Concat(Tail(ss))

\* insertion-ordered set, as a JS Set iterates: first occurrences, in order
RECURSIVE Dedup(_)
Dedup(s) ==
    IF s = <<>> THEN <<>>
    ELSE LET r == Dedup(SubSeq(s, 1, Len(s) - 1))
             x == s[Len(s)]
         IN IF x \in Range(r) THEN r ELSE Append(r, x)

\* does needle occur in hay as a contiguous run (String.prototype.includes)
Includes(hay, needle) ==
    \E o \in 0..(Len(hay) - Len(needle)) :
        \A i \in 1..Len(needle) : hay[o + i] = needle[i]

(***************************************************************************)
(* Tokens.                                                                 *)
(***************************************************************************)
MaxRefNo == 11     \* citation numbers the model writes: [#0]..[#11], [W0]..[W11]

DocRef(n) == "#" \o ToString(n)
WebRef(n) == "W" \o ToString(n)

\* what /\[(#\d+|W\d+)\]/ matches
CitationTokens == {DocRef(n) : n \in 0..MaxRefNo} \cup {WebRef(n) : n \in 0..MaxRefNo}
IsCitation(t) == t \in CitationTokens

StepwiseWords      == {"step", "procedure", "first", "second", "finally",
                       "conclusion", "summary"}
ExpectedSteps      == <<"first", "second", "finally">>
ContradictionWords == {"disagree", "conflict", "contradict", "inconsistent",
                       "opposite", "contrary"}
ContrastWords      == {"however", "but", "although", "yet", "nevertheless",
                       "on the other hand"}
IsSpace(t) == t = " "

Last(s) == s[Len(s)]
IsBlank(l) == \A i \in DOMAIN l : IsSpace(l[i])
HasWord(l, W) == \E i \in DOMAIN l : l[i] \in W

\* String.prototype.trim on a line
RECURSIVE TrimEnd(_)
TrimEnd(l) == IF l # <<>> /\ IsSpace(Last(l)) THEN TrimEnd(SubSeq(l, 1, Len(l) - 1)) ELSE l
RECURSIVE TrimStart(_)
TrimStart(l) == IF l # <<>> /\ IsSpace(Head(l)) THEN TrimStart(Tail(l)) ELSE l
Trim(l) == TrimStart(TrimEnd(l))

(***************************************************************************)
(* QualityValidationAgent.execute(answer, contextBlocks, notes).           *)
(***************************************************************************)
SliceLen == 3      \* tokens standing for the 20 characters of step.slice(0, 20)
WebRefs  == 10     \* W1..W10 are always valid refs

\* answer.split(/\n+/).filter(l => l.trim().length > 0)
IsNonBlank(l) == ~IsBlank(l)
QVSteps(answer) == SelectSeq(answer, IsNonBlank)

IsStepwise(l) == HasWord(l, StepwiseWords)
\* step.match(/\[(#\d+|W\d+)\]$/): the line ends with a citation token
EndsWithCitation(l) == l # <<>> /\ IsCitation(Last(l))
\* [...step.matchAll(citationRegex)]
AllMatches(l) == SelectSeq(l, IsCitation)

IsUncitedStep(l) == IsStepwise(l) /\ ~EndsWithCitation(l)
IsCitedStep(l)   == IsStepwise(l) /\ EndsWithCitation(l)
IsMalformedStep(l) ==
    /\ IsCitedStep(l)
    /\ \/ Len(AllMatches(l)) > 1
       \/ Len(AllMatches(l)) = 1 /\ Last(Trim(l)) # AllMatches(l)[1]

\* the refs the loop tracks: match[1] of every cited step, in order
TrackedRefs(steps) ==
    LET cited == SelectSeq(steps, IsCitedStep)
    IN [i \in 1..Len(cited) |-> Last(cited[i])]

\* refs met when already in seenCitations, each once, in order
RECURSIVE Repeats(_)
Repeats(s) ==
    IF s = <<>> THEN <<>>
    ELSE LET f == SubSeq(s, 1, Len(s) - 1)
         IN IF Last(s) \in Range(f) THEN Append(Repeats(f), Last(s)) ELSE Repeats(f)
DuplicateCitations(steps) == Dedup(Repeats(TrackedRefs(steps)))

ValidRefs(contextBlocks) ==
    {DocRef(i) : i \in 1..Len(contextBlocks)} \cup {WebRef(i) : i \in 1..WebRefs}

IsOrphanRef(contextBlocks, ref) == ref \notin ValidRefs(contextBlocks)

OrphanCitations(steps, contextBlocks) ==
    LET all == Dedup(TrackedRefs(steps))
        idx == {i \in DOMAIN all : IsOrphanRef(contextBlocks, all[i])}
        RECURSIVE Pick(_)
        Pick(i) == IF i > Len(all) THEN <<>>
                   ELSE (IF i \in idx THEN <<all[i]>> ELSE <<>>) \o Pick(i + 1)
    IN Pick(1)

\* contextText = contextBlocks.map(b => b.content).join("\n"); truthy when not ""
ContextTextNonEmpty(contextBlocks) ==
    \/ Len(contextBlocks) >= 2
    \/ Len(contextBlocks) = 1 /\ contextBlocks[1].content # <<>>
StepPrefix(l) == SubSeq(l, 1, IF Len(l) < SliceLen THEN Len(l) ELSE SliceLen)
ContextIncludes(contextBlocks, l) ==
    \E b \in DOMAIN contextBlocks : Includes(contextBlocks[b].content, StepPrefix(l))
UnsupportedClaims(steps, contextBlocks) ==
    Cardinality({i \in DOMAIN steps :
        /\ IsStepwise(steps[i])
        /\ ContextTextNonEmpty(contextBlocks)
        /\ ~ContextIncludes(contextBlocks, steps[i])})

NoteIf(cond, note) == IF cond THEN <<note>> ELSE <<>>

\* validationNotes as pushed by the validator's own checks, before `notes` is merged
ValidatorFindings(answer, contextBlocks) ==
    LET steps     == QVSteps(answer)
        uncited   == Len(SelectSeq(steps, IsUncitedStep))
        malformed == Len(SelectSeq(steps, IsMalformedStep))
        dups      == DuplicateCitations(steps)
        orphans   == OrphanCitations(steps, contextBlocks)
        missing   == [i \in 1..Len(ExpectedSteps) |->
                        NoteIf(~\E j \in DOMAIN steps : HasWord(steps[j], {ExpectedSteps[i]}),
                               <<"Stepwise completeness: missing step", ExpectedSteps[i]>>)]
        contradictionPresent == \E j \in DOMAIN answer : HasWord(answer[j], ContradictionWords)
        contrastPresent      == \E j \in DOMAIN answer : HasWord(answer[j], ContrastWords)
        unsupported == UnsupportedClaims(steps, contextBlocks)
    IN  NoteIf(uncited > 0, <<"Uncited steps:", ToString(uncited)>>)
     \o NoteIf(malformed > 0, <<"Malformed citations:", ToString(malformed)>>)
     \o NoteIf(dups # <<>>, <<"Duplicate citations:">> \o dups)
     \o NoteIf(orphans # <<>>, <<"Orphan citations:">> \o orphans)
     \o NoteIf(malformed > 0, <<"Malformed citation steps:", ToString(malformed)>>)
     \o NoteIf(~\E j \in DOMAIN steps : IsStepwise(steps[j]),
               <<"Answer may lack stepwise structure.">>)
     \o Concat(missing)
     \o NoteIf(~contradictionPresent /\ contrastPresent,
               <<"Potential contradiction or contrast not explicitly surfaced.">>)
     \o NoteIf(unsupported > 0,
               <<"Fact-check:", ToString(unsupported),
                 "step(s) not clearly supported by context.">>)

NumberedSteps(ss) == [i \in 1..Len(ss) |-> <<"Step", ToString(i), ":">> \o ss[i]]

\* mutant: the notes passed in are enough to ask for a new synthesis
FeedbackForSynthesisOnAnyNote(answer, contextBlocks, notes) ==
    IF ValidatorFindings(answer, contextBlocks) \o notes = <<>> THEN <<>>
    ELSE <<<<"Validation feedback:">>>> \o ValidatorFindings(answer, contextBlocks) \o notes

FeedbackForSynthesis(answer, contextBlocks, notes) ==
    LET steps      == QVSteps(answer)
        findings   == ValidatorFindings(answer, contextBlocks)
        uncitedTxt == SelectSeq(steps, IsUncitedStep)
        malformedS == SelectSeq(steps, IsMalformedStep)
        dups       == DuplicateCitations(steps)
        orphans    == OrphanCitations(steps, contextBlocks)
    IN IF findings = <<>> THEN <<>>
       ELSE <<<<"Validation feedback:">>>>
         \o findings
         \o (IF uncitedTxt # <<>>
             THEN <<<<"Please add citations to the following uncited steps:">>>>
                  \o NumberedSteps(uncitedTxt)
             ELSE <<>>)
         \o (IF malformedS # <<>>
             THEN <<<<"Please fix malformed citations in the following steps:">>>>
                  \o NumberedSteps(malformedS)
             ELSE <<>>)
         \o NoteIf(dups # <<>>, <<"Please avoid duplicate citations:">> \o dups)
         \o NoteIf(orphans # <<>>, <<"Please remove or fix orphan citations:">> \o orphans)
         \o notes

\* validationNotes.push(...notes)
MergedNotes(findings, notes) == findings \o notes

NotesBlock(validationNotes) ==
    <<<<>>, <<"[Validation Notes]">>>>
    \o [i \in 1..Len(validationNotes) |-> <<"-">> \o validationNotes[i]]

\* mutant: an answer with findings is replaced by the notes
ValidatedBlocking(answer, validationNotes) ==
    IF validationNotes # <<>> THEN NotesBlock(validationNotes) ELSE answer

\* let validated = answer; if (validationNotes.length) validated += block
Validated(answer, validationNotes) ==
    IF validationNotes # <<>> THEN answer \o NotesBlock(validationNotes) ELSE answer

QualityValidationExecute(answer, contextBlocks, notes) ==
    LET validationNotes == MergedNotes(ValidatorFindings(answer, contextBlocks), notes)
    IN [validated            |-> Validated(answer, validationNotes),
        validationNotes      |-> validationNotes,
        feedbackForSynthesis |-> FeedbackForSynthesis(answer, contextBlocks, notes)]


(***************************************************************************)
(* Inputs of the validator: answers built from a pool of lines, context    *)
(* blocks from a pool of blocks, synthesis notes.                          *)
(***************************************************************************)
MaxAnswerLines == 2
MaxBlocks      == 2

Block(id, title, source, content, tag) ==
    [id |-> id, title |-> title, source |-> source, content |-> content, sectionTag |-> tag]

BlockA == Block("c1", "Core Spec", "core.pdf", <<"first", "second", "finally">>, "Security")
BlockB == Block("c2", "GATT", "gatt.pdf", <<"txt">>, "GATT/GAP")
BlockC == Block("c3", "Core Spec", "core.pdf", <<>>, "Security")
BlockPool == {BlockA, BlockB, BlockC}

LinePool ==
    { <<"first", "second", "finally", "W1">>,   \* every expected step, cited
      <<"first", "#1">>,                        \* cited step, document ref
      <<"step", "#9">>,                         \* cited step, ref beyond the blocks
      <<"txt", "#9">>,                          \* citation on a line that is no step
      <<"second", "#9", "txt">>,                \* citation inside a step, not trailing
      <<"finally", "#9", "W1">>,                \* two citations on one step
      <<"summary", "however", "W11">>,          \* web ref beyond W10
      <<"txt", " ">>,
      <<" ">> }

NoGlossary == <<"No glossary section detected.">>
ValidatorAnswers == SeqsUpTo(LinePool, MaxAnswerLines)
ValidatorBlocks  == SeqsUpTo(BlockPool, MaxBlocks)
ValidatorNotes   == {<<>>, <<NoGlossary>>}

ValidatorInputs ==
    [answer : ValidatorAnswers, contextBlocks : ValidatorBlocks, notes : ValidatorNotes]

\* no call of the validator on its own
ValidateIdle ==
    /\ vIn = <<>>
    /\ vOut = <<>>

\* the arguments of a call, drawn from the inputs
ValidateInit ==
    /\ vIn \in {<<i>> : i \in ValidatorInputs}
    /\ vOut = <<>>

\* validationAgent.execute(answer, contextBlocks, notes) returns
ValidateCall ==
    /\ vIn # <<>>
    /\ vOut = <<>>
    /\ vOut' = <<QualityValidationExecute(vIn[1].answer, vIn[1].contextBlocks, vIn[1].notes)>>
    /\ UNCHANGED vIn


(***************************************************************************)
(* Correction cache (corrections.ts).  Queries are sequences of            *)
(* characters, so that normalizeQuery is computed character by character.  *)
(***************************************************************************)
UpperLetters == <<"A", "B", "C", "I", "S">>
LowerLetters == <<"a", "b", "c", "i", "s">>
Punctuation  == {"?", "!", ".", ",", ";", ":", "'", "\"", "(", ")", "[", "]", "{", "}"}
\* the characters \b treats as word characters, among those the model writes
WordChars    == Range(LowerLetters) \cup Range(UpperLetters) \cup {"_"}
StopWords ==
    { <<"w","h","a","t">>, <<"h","o","w">>, <<"w","h","y">>, <<"w","h","e","n">>,
      <<"w","h","e","r","e">>, <<"w","h","o">>, <<"w","h","i","c","h">>, <<"i","s">>,
      <<"a","r","e">>, <<"w","a","s">>, <<"w","e","r","e">>, <<"t","h","e">>, <<"a">>,
      <<"a","n">>, <<"d","o">>, <<"d","o","e","s">>, <<"d","i","d">>, <<"c","a","n">>,
      <<"c","o","u","l","d">>, <<"s","h","o","u","l","d">>, <<"w","o","u","l","d">> }

ToLowerChar(c) ==
    IF \E i \in DOMAIN UpperLetters : UpperLetters[i] = c
    THEN LowerLetters[CHOOSE i \in DOMAIN UpperLetters : UpperLetters[i] = c]
    ELSE c
ToLowerCase(s) == [i \in DOMAIN s |-> ToLowerChar(s[i])]

IsNotPunctuation(c) == c \notin Punctuation
RemovePunctuation(s) == SelectSeq(s, IsNotPunctuation)

\* replace(/\s+/g, ' ')
RECURSIVE CollapseWhitespace(_)
CollapseWhitespace(s) ==
    IF s = <<>> THEN <<>>
    ELSE IF IsSpace(Head(s))
         THEN <<" ">> \o CollapseWhitespace(TrimStart(Tail(s)))
         ELSE <<Head(s)>> \o CollapseWhitespace(Tail(s))

\* the maximal run of word characters s starts with
RECURSIVE WordRun(_)
WordRun(s) ==
    IF s # <<>> /\ Head(s) \in WordChars THEN <<Head(s)>> \o WordRun(Tail(s)) ELSE <<>>

\* replace(/\b(what|how|...)\b/g, ''): a whole word that is a stop word goes
RECURSIVE RemoveStopWords(_)
RemoveStopWords(s) ==
    IF s = <<>> THEN <<>>
    ELSE IF Head(s) \in WordChars
         THEN LET w == WordRun(s)
                  rest == SubSeq(s, Len(w) + 1, Len(s))
              IN (IF w \in StopWords THEN <<>> ELSE w) \o RemoveStopWords(rest)
         ELSE <<Head(s)>> \o RemoveStopWords(Tail(s))

\* mutant: the stop words are removed before the punctuation
normalizeQueryStopWordsFirst(q) ==
    Trim(CollapseWhitespace(RemovePunctuation(RemoveStopWords(
        CollapseWhitespace(Trim(ToLowerCase(q)))))))

normalizeQuery(q) ==
    Trim(CollapseWhitespace(RemoveStopWords(
        CollapseWhitespace(RemovePunctuation(Trim(ToLowerCase(q)))))))

\* SHA-256 of the text, cut to 16 hex digits: deterministic, and taken to be
\* free of collisions on the texts of the model
hashString(text) == [sha256 |-> text]
correctionCacheKey(questionId) == [prefix |-> "correction:", id |-> questionId]
\* id for the question itself (idx = 0), `${id}_v${idx}` for the others
VectorId(id, idx) == [id |-> id, v |-> idx]

CORRECTION_MATCH_THRESHOLD == 90    \* "0.90", scores are in hundredths
TtlDays == 365
TtlSeconds == TtlDays * 24 * 60 * 60
MaxReuse == 1                        \* cap on timesReused in the model

QueryB    == <<"b", "?">>
QueryAB   == <<"a", " ", "b">>
QueryBB   == <<"b", "b">>
QueryC    == <<"c">>
Queries   == {QueryB, QueryAB, QueryBB, QueryC}

CorrectX == << <<"corrected", "x">> >>
CorrectY == << <<"corrected", "y">> >>
WrongW   == << <<"wrong">> >>

\* normalizeQuery over the queries of the model, computed once
NormalizedQuery == [q \in Queries |-> normalizeQuery(q)]

CacheIds  == {hashString(NormalizedQuery[q]) : q \in Queries}
CacheKeys == {correctionCacheKey(i) : i \in CacheIds}
MaxVariants == 1
VectorIds == {VectorId(i, n) : i \in CacheIds, n \in 0..MaxVariants}

EmptyKV    == [k \in CacheKeys |-> <<>>]
EmptyIndex == [v \in VectorIds |-> <<>>]

KVGet(store, key) == IF key \in DOMAIN store /\ store[key] # <<>> THEN <<store[key][1].val>> ELSE <<>>
KVPut(store, key, value, ttl) == [store EXCEPT ![key] = <<[val |-> value, ttl |-> ttl]>>]
KVDelete(store, key) == IF key \in DOMAIN store THEN [store EXCEPT ![key] = <<>>] ELSE store

\* correction.timesReused = (correction.timesReused || 0) + 1; correction.lastUsed = now
TouchCorrection(correction) ==
    [correction EXCEPT !.timesReused = @ + 1, !.lastUsed = "now"]

\* mutant: the bindings are taken to be there
NotConfiguredNever(e) == FALSE

\* !env.CORRECTION_QA_INDEX || !env.CORRECTION_QA_KV
NotConfigured(e) == ~e.CORRECTION_QA_INDEX \/ ~e.CORRECTION_QA_KV

Miss(confidence) ==
    [found |-> FALSE, confidence |-> confidence, correction |-> <<>>, matchedVariant |-> <<>>]


\* mutant: the boundary is taken as exclusive
AcceptScoreStrict(score) == score > CORRECTION_MATCH_THRESHOLD

\* topMatch.score >= threshold
AcceptScore(score) == score >= CORRECTION_MATCH_THRESHOLD

\* TIER 1: the record under the exact key is returned with confidence 1.0
ExactHit(store, exactKey, exactMatch) ==
    LET correction == TouchCorrection(exactMatch)
    IN [result |-> [found |-> TRUE, confidence |-> 100, correction |-> <<correction>>,
                    matchedVariant |-> <<correction.originalQuestion>>],
        kv |-> KVPut(store, exactKey, correction, <<>>),
        indexQueried |-> FALSE, used |-> {"kv"}]

\* mutant: a match without a record is answered from a record that is there
DanglingMatchServesAnother(store, confidence) ==
    LET live == {k \in DOMAIN store : store[k] # <<>>}
    IN IF live = {}
       THEN [result |-> Miss(confidence), kv |-> store, indexQueried |-> TRUE,
             used |-> {"kv", "ai", "index"}]
       ELSE LET k          == CHOOSE key \in live : TRUE
                correction == TouchCorrection(store[k][1].val)
            IN [result |-> [found |-> TRUE, confidence |-> confidence,
                            correction |-> <<correction>>,
                            matchedVariant |-> <<correction.originalQuestion>>],
                kv |-> KVPut(store, k, correction, <<>>),
                indexQueried |-> TRUE, used |-> {"kv", "ai", "index"}]

\* mutant: a miss on a dangling match clears the store
DanglingMatchPurges(store, confidence) ==
    [result |-> Miss(confidence), kv |-> [k \in DOMAIN store |-> <<>>], indexQueried |-> TRUE,
     used |-> {"kv", "ai", "index"}]

\* the nearest match has no kvKey, or no record under its kvKey: a miss
DanglingMatch(store, confidence) ==
    [result |-> Miss(confidence), kv |-> store, indexQueried |-> TRUE,
     used |-> {"kv", "ai", "index"}]

\* TIER 2: sem is what the vector index answered: it threw (both calling
\* conventions), or it returned its matches, nearest first
SemanticTier(store, sem) ==
    IF sem.fails \/ sem.matches = <<>>
    THEN [result |-> Miss(0), kv |-> store, indexQueried |-> TRUE,
                  used |-> {"kv", "ai", "index"}]
    ELSE LET topMatch == sem.matches[1]
             kvKey    == topMatch.metadata.kvKey
         IN IF ~AcceptScore(topMatch.score)
            THEN [result |-> Miss(0), kv |-> store, indexQueried |-> TRUE,
                  used |-> {"kv", "ai", "index"}]
            ELSE IF kvKey = <<>>
            THEN DanglingMatch(store, topMatch.score)
            ELSE IF KVGet(store, kvKey[1]) = <<>>
            THEN DanglingMatch(store, 0)
            ELSE LET correction == TouchCorrection(KVGet(store, kvKey[1])[1])
                 IN [result |-> [found |-> TRUE, confidence |-> topMatch.score,
                                 correction |-> <<correction>>,
                                 matchedVariant |-> <<topMatch.metadata.questionPreview>>],
                     kv |-> KVPut(store, kvKey[1], correction, <<>>),
                     indexQueried |-> TRUE, used |-> {"kv", "ai", "index"}]

\* mutant: a semantic match at or above the threshold is taken before the exact key
checkCorrectionCacheSemanticFirst(e, store, q, sem) ==
    LET exactKey   == correctionCacheKey(hashString(NormalizedQuery[q]))
        exactMatch == KVGet(store, exactKey)
        semantic   == SemanticTier(store, sem)
    IN IF NotConfigured(e)
       THEN [result |-> Miss(0), kv |-> store, indexQueried |-> FALSE, used |-> {}]
       ELSE IF semantic.result.found THEN semantic
       ELSE IF exactMatch # <<>> THEN ExactHit(store, exactKey, exactMatch[1])
       ELSE semantic

\* e is env: without both bindings the lookup is a miss and touches nothing
checkCorrectionCache(e, store, q, sem) ==
    LET exactKey   == correctionCacheKey(hashString(NormalizedQuery[q]))
        exactMatch == KVGet(store, exactKey)
    IN IF NotConfigured(e)
       THEN [result |-> Miss(0), kv |-> store, indexQueried |-> FALSE, used |-> {}]
       ELSE IF exactMatch # <<>>
       THEN ExactHit(store, exactKey, exactMatch[1])
       ELSE SemanticTier(store, sem)

\* what CORRECTION_QA_INDEX.query can answer over the entries it holds
Scores == {CORRECTION_MATCH_THRESHOLD - 1, CORRECTION_MATCH_THRESHOLD, 100}
\* a match can come back without its kvKey (metadata not returned, or written
\* by another writer of the index)
SemOutcomesScored(idx, scores) ==
    LET held == {v \in DOMAIN idx : idx[v] # <<>>}
    IN {[fails |-> TRUE, matches |-> <<>>]}
       \cup (IF held = {} THEN {[fails |-> FALSE, matches |-> <<>>]} ELSE {})
       \cup {[fails |-> FALSE,
              matches |-> <<[id |-> v, score |-> sc, metadata |-> idx[v][1]]>>] :
                v \in held, sc \in scores}
       \cup {[fails |-> FALSE,
              matches |-> <<[id |-> v, score |-> CORRECTION_MATCH_THRESHOLD,
                            metadata |-> [idx[v][1] EXCEPT !.kvKey = <<>>]]>>] :
                v \in held}
SemOutcomes(idx) == SemOutcomesScored(idx, Scores)
\* for a chat request: just below the threshold, or at it
ChatScores == {CORRECTION_MATCH_THRESHOLD - 1, CORRECTION_MATCH_THRESHOLD}

\* mutant: the submitted variants replace the stored ones
MergeVariantsReplace(old, new) == Dedup(new)

\* correction.questionVariants = [...new Set([...old, ...new])]
MergeVariants(old, new) == Dedup(old \o new)

\* mutant: an update that leaves the stored answer as it was
UpdateCorrectionKeepAnswer(existing, fb) ==
    [existing EXCEPT !.wrongAnswer = fb.wrongAnswer,
                     !.questionVariants = MergeVariants(@, fb.questionVariants),
                     !.correctedBy = fb.correctedBy]

UpdateCorrection(existing, fb) ==
    [existing EXCEPT !.correctAnswer = fb.correctAnswer,
                     !.wrongAnswer = fb.wrongAnswer,
                     !.questionVariants = MergeVariants(@, fb.questionVariants),
                     !.correctedBy = fb.correctedBy]

NewCorrection(id, normalized, fb) ==
    [id |-> id,
     originalQuestion |-> fb.originalQuery,
     normalizedQuestion |-> normalized,
     questionVariants |-> fb.questionVariants,
     wrongAnswer |-> fb.wrongAnswer,
     correctAnswer |-> fb.correctAnswer,
     correctedBy |-> fb.correctedBy,
     timesReused |-> 0,
     lastUsed |-> "unset"]

\* [originalQuery, ...variants].filter(q => q && q.trim().length > 0)
QuestionsToEmbed(fb) ==
    SelectSeq(<<fb.originalQuery>> \o fb.questionVariants, IsNonBlank)

VectorEntries(id, kvKey, questions) ==
    [i \in 1..Len(questions) |->
        [id |-> VectorId(id, i - 1),
         metadata |-> [kvKey |-> <<kvKey>>, questionPreview |-> questions[i]]]]

IndexUpsert(idx, entries) ==
    [v \in DOMAIN idx |->
        IF \E i \in DOMAIN entries : entries[i].id = v
        THEN <<(entries[CHOOSE i \in DOMAIN entries : entries[i].id = v]).metadata>>
        ELSE idx[v]]

\* upsertFails: CORRECTION_QA_INDEX.upsert threw, after the KV write
storeCorrectionInCache(e, store, idx, fb, upsertFails) ==
    LET id         == hashString(NormalizedQuery[fb.originalQuery])
        kvKey      == correctionCacheKey(id)
        existing   == KVGet(store, kvKey)
        correction == IF existing # <<>>
                      THEN UpdateCorrection(existing[1], fb)
                      ELSE NewCorrection(id, NormalizedQuery[fb.originalQuery], fb)
        store2     == KVPut(store, kvKey, correction, <<TtlSeconds>>)
        entries    == VectorEntries(id, kvKey, QuestionsToEmbed(fb))
    IN IF NotConfigured(e)
       THEN [result |-> [success |-> FALSE, id |-> <<>>], kv |-> store, index |-> idx,
             used |-> {}]
       ELSE IF upsertFails
       THEN [result |-> [success |-> FALSE, id |-> <<>>], kv |-> store2, index |-> idx,
             used |-> {"kv", "ai", "index"}]
       ELSE [result |-> [success |-> TRUE, id |-> <<id>>], kv |-> store2,
             index |-> IndexUpsert(idx, entries), used |-> {"kv", "ai", "index"}]

\* null without the KV binding, else the record under the id's key
getCorrectionById(e, store, correctionId) ==
    IF ~e.CORRECTION_QA_KV THEN <<>> ELSE KVGet(store, correctionCacheKey(correctionId))

\* mutant: the delete answers success and removes nothing
deleteCorrectionByIdKeepsRecord(e, store, correctionId) == store

\* only the KV record is deleted, the vector index has no delete
deleteCorrectionById(e, store, correctionId) ==
    IF NotConfigured(e) THEN store ELSE KVDelete(store, correctionCacheKey(correctionId))


(***************************************************************************)
(* The cache operations as steps of the system.                            *)
(***************************************************************************)
Feedback(q, answer, variants) ==
    [originalQuery |-> q, wrongAnswer |-> WrongW, correctAnswer |-> answer,
     questionVariants |-> variants, correctedBy |-> "u1"]

VariantD    == <<"d">>
VariantPool == {QueryC, VariantD}
\* submissions: a question with a variant, the same question with another
\* answer, and a second question
Feedbacks ==
    { Feedback(QueryB, CorrectX, <<QueryC>>),
      Feedback(QueryB, CorrectY, <<>>),
      Feedback(QueryBB, CorrectX, <<>>) }

\* submissions for one question that differ in their variants
VariantFeedbackPool ==
    { Feedback(QueryB, CorrectX, <<>>),
      Feedback(QueryB, CorrectX, <<QueryC>>),
      Feedback(QueryB, CorrectY, <<VariantD>>),
      Feedback(QueryB, CorrectY, <<QueryC, QueryC>>),
      Feedback(QueryB, CorrectX, <<VariantD, QueryC>>) }
VariantFeedbacks == {fb \in VariantFeedbackPool : Len(fb.questionVariants) <= MaxVariants}

KeyOfQuery(q) == correctionCacheKey(hashString(NormalizedQuery[q]))

\* the deployments: each binding is there or is not
Envs == [CORRECTION_QA_KV : BOOLEAN, CORRECTION_QA_INDEX : BOOLEAN]
Provisioned == [CORRECTION_QA_KV |-> TRUE, CORRECTION_QA_INDEX |-> TRUE]

\* both stores empty, in a deployment of the set E
CacheEmpty(E) ==
    /\ kv = EmptyKV
    /\ index = EmptyIndex
    /\ lastOp = [op |-> "none"]
    /\ committed = [k \in CacheKeys |-> <<>>]
    /\ clean = [k \in CacheKeys |-> FALSE]
    /\ env \in E

CacheInit == CacheEmpty({Provisioned})

\* storeCorrectionInCache, for a feedback of the set F
StoreFrom(F) ==
    \E fb \in F, upsertFails \in BOOLEAN :
        LET r   == storeCorrectionInCache(env, kv, index, fb, upsertFails)
            key == KeyOfQuery(fb.originalQuery)
        IN /\ kv' = r.kv
           /\ index' = r.index
           /\ committed' = [committed EXCEPT
                              ![key] = IF r.result.success THEN <<fb.correctAnswer>> ELSE <<>>]
           /\ clean' = [clean EXCEPT
                          ![key] = /\ r.result.success
                                   /\ (KVGet(kv, key) = <<>> \/ @)]
           /\ lastOp' = [op |-> "store", feedback |-> fb, result |-> r.result,
                         existing |-> KVGet(kv, key), stored |-> KVGet(r.kv, key),
                         used |-> r.used,
                         wrote |-> (r.kv # kv \/ r.index # index)]

\* the state a lookup leaves behind, and what it was given
LookupEffect(q, sem, r) ==
    /\ r.result.found => r.result.correction[1].timesReused <= MaxReuse
    /\ kv' = r.kv
    /\ lastOp' = [op |-> "lookup", query |-> q, sem |-> sem,
                  exactMatch |-> KVGet(kv, KeyOfQuery(q)),
                  expected |-> committed[KeyOfQuery(q)],
                  semTarget |-> IF sem.matches # <<>> /\ sem.matches[1].metadata.kvKey # <<>>
                                THEN KVGet(kv, sem.matches[1].metadata.kvKey[1]) ELSE <<>>,
                  result |-> r.result, indexQueried |-> r.indexQueried,
                  used |-> r.used, wrote |-> (r.kv # kv)]
    /\ UNCHANGED <<index, committed, clean>>

\* deleteCorrectionById, for an id of the set I
DeleteFrom(I) ==
    \E id \in I :
        /\ kv' = deleteCorrectionById(env, kv, id)
        /\ committed' = [committed EXCEPT ![correctionCacheKey(id)] = <<>>]
        /\ clean' = [clean EXCEPT ![correctionCacheKey(id)] = FALSE]
        /\ lastOp' = [op |-> "delete", id |-> id, existing |-> KVGet(kv, correctionCacheKey(id))]
        /\ UNCHANGED index

CacheStore == StoreFrom(Feedbacks) /\ UNCHANGED <<valVars, chatVars, sideVars>>

CacheLookup ==
    /\ \E q \in Queries, sem \in SemOutcomes(index) :
          LookupEffect(q, sem, checkCorrectionCache(env, kv, q, sem))
    /\ UNCHANGED <<valVars, chatVars, sideVars>>

CacheDelete == DeleteFrom(CacheIds) /\ UNCHANGED <<valVars, chatVars, sideVars>>

\* the stores of one question with its variants, and its deletion
VariantStore == StoreFrom(VariantFeedbacks) /\ UNCHANGED <<valVars, chatVars, sideVars>>

VariantDelete ==
    /\ DeleteFrom({hashString(NormalizedQuery[QueryB])})
    /\ UNCHANGED <<valVars, chatVars, sideVars>>

CacheGet ==
    /\ \E id \in CacheIds :
          lastOp' = [op |-> "get", id |-> id, result |-> getCorrectionById(env, kv, id)]
    /\ UNCHANGED <<kv, index, committed, clean, valVars, chatVars, sideVars>>

\* mutant: only the question is required
MissingRequiredFieldsQueryOnly(body) == body.originalQuery = <<>>

\* POST /api/feedback/correct: !body.originalQuery || !body.wrongAnswer ||
\* !body.correctAnswer; a field that is absent or "" is <<>>
MissingRequiredFields(body) ==
    body.originalQuery = <<>> \/ body.wrongAnswer = <<>> \/ body.correctAnswer = <<>>

\* the route, for a request body of the set B: 400 and nothing else, or the store
SubmitFrom(B) ==
    \E body \in B :
        IF MissingRequiredFields(body)
        THEN /\ lastOp' = [op |-> "rejected", body |-> body, status |-> 400]
             /\ UNCHANGED <<kv, index, committed, clean>>
        ELSE StoreFrom({body})


(***************************************************************************)
(* SynthesisAgent.execute: the notes it derives from the answer it got.    *)
(***************************************************************************)
AnswerHas(answer, W) == \E j \in DOMAIN answer : HasWord(answer[j], W)

\* mutant: the gaps retrieval reported are not carried into the notes
SynthesisNotesWithoutGaps(answer, knowledgeGaps) ==
       NoteIf(AnswerHas(answer, {"missing", "insufficient"}),
              <<"Synthesis flagged missing context.">>)
    \o NoteIf(~AnswerHas(answer, {"glossary"}), NoGlossary)
    \o NoteIf(~AnswerHas(answer, StepwiseWords), <<"Answer may lack stepwise structure.">>)

SynthesisNotes(answer, knowledgeGaps) ==
       NoteIf(AnswerHas(answer, {"missing", "insufficient"}),
              <<"Synthesis flagged missing context.">>)
    \o knowledgeGaps
    \o NoteIf(~AnswerHas(answer, {"glossary"}), NoGlossary)
    \o NoteIf(~AnswerHas(answer, StepwiseWords), <<"Answer may lack stepwise structure.">>)
    \o NoteIf(AnswerHas(answer, {"disagree", "conflict", "contradict"}),
              <<"Contradiction(s) detected and surfaced.">>)

(***************************************************************************)
(* KnowledgeRetrievalAgent.execute, by its result: the context window and  *)
(* the gaps it reports for it.                                             *)
(***************************************************************************)
KnowledgeGaps(contextBlocks) ==
       NoteIf(Cardinality({contextBlocks[i].sectionTag : i \in DOMAIN contextBlocks}) < 2,
              <<"Low diversity in sources; may miss cross-protocol insights.">>)
    \o NoteIf(Len(contextBlocks) = 0, <<"No relevant context found in RAG index.">>)

RetrievalResult(contextBlocks) ==
    [contextBlocks  |-> contextBlocks,
     knowledgeGaps  |-> KnowledgeGaps(contextBlocks),
     retrievalNotes |-> <<<<"Clusters:",
         ToString(Cardinality({contextBlocks[i].sectionTag : i \in DOMAIN contextBlocks}))>>>>]

RetrievalPool ==
    {RetrievalResult(<<>>), RetrievalResult(<<BlockA>>), RetrievalResult(<<BlockB, BlockA>>)}

(***************************************************************************)
(* AgentOrchestrator.processQuery and handleChat.                          *)
(*                                                                         *)
(* maxIter is a JSON number: it is kept in half units (twice the value),   *)
(* so that 0.5 and 1.5 are inputs too; isNumber is typeof x === 'number'.  *)
(***************************************************************************)
ITER_CAP     == 10
DEFAULT_ITER == 2

Min(a, b) == IF a < b THEN a ELSE b

\* typeof maxIter === 'number' && maxIter > 0 ? Math.min(maxIter, 10) : 2
ClampMaxIter(m) ==
    IF m.isNumber /\ m.twice > 0
    THEN [isNumber |-> TRUE, twice |-> Min(m.twice, 2 * ITER_CAP)]
    ELSE [isNumber |-> TRUE, twice |-> 2 * DEFAULT_ITER]

\* mutant: the loop's test is iter <= MAX_ITER
LoopContinuesInclusive(i, maxIter2) == 2 * i <= maxIter2

\* the for loop's test, iter < MAX_ITER
LoopContinues(i, maxIter2) == 2 * i < maxIter2

\* answer = validation ? validation.validated : ""
FinalAnswer(v) == IF v # <<>> THEN v[1].validated ELSE <<>>

\* mutant: refs numbered from 0
FinalCitationsZeroBased(r) ==
    IF r # <<>>
    THEN [i \in 1..Len(r[1].contextBlocks) |->
            [ref    |-> DocRef(i - 1),
             id     |-> r[1].contextBlocks[i].id,
             title  |-> r[1].contextBlocks[i].title,
             source |-> r[1].contextBlocks[i].source]]
    ELSE <<>>

\* citations = retrieval.contextBlocks.map((c, i) => ({ref: `#${i + 1}`, ...}))
FinalCitations(r) ==
    IF r # <<>>
    THEN [i \in 1..Len(r[1].contextBlocks) |->
            [ref    |-> DocRef(i),
             id     |-> r[1].contextBlocks[i].id,
             title  |-> r[1].contextBlocks[i].title,
             source |-> r[1].contextBlocks[i].source]]
    ELSE <<>>

\* mutant: the answer that was corrected is sent instead of the correction
CacheHitResponseWrongAnswer(hit) ==
    [kind |-> "answer", status |-> 200, answer |-> hit.correction[1].wrongAnswer,
     citations |-> <<>>, source |-> "correction_cache", confidence |-> hit.confidence]

\* the response handleChat builds from a cache hit
CacheHitResponse(hit) ==
    [kind |-> "answer", status |-> 200, answer |-> hit.correction[1].correctAnswer,
     citations |-> <<>>, source |-> "correction_cache", confidence |-> hit.confidence]

\* the response handleChat builds from what processQuery returned
RagResponse(answer, citations) ==
    [kind |-> "answer", status |-> 200, answer |-> answer,
     citations |-> citations, source |-> "rag", confidence |-> 0]

\* the catch around processQuery: jsonResponse({error}, {status: 500})
ErrorResponse ==
    [kind |-> "error", status |-> 500, answer |-> <<>>,
     citations |-> <<>>, source |-> "rag", confidence |-> 0]

\* synthInput is <<>> or <<the query the synthesizer was last called with>>,
\* firstFeedback the feedback the first iteration ended with; synthFresh and
\* valFresh tell that synthesis and validation were assigned in the iteration
\* that ran last
NoCalls == [retrieval |-> 0, synthesis |-> 0, validation |-> 0, web |-> 0,
            threw |-> {}, firstIterThrew |-> {}, started |-> 0, processQuery |-> "none",
            synthInput |-> <<>>, firstFeedback |-> <<>>, synthFresh |-> FALSE, valFresh |-> FALSE]

\* query + (feedback.length ? `\n\n[Validation Feedback]\n- ${feedback.join("\n- ")}` : ""),
\* as lines
SynthesisQuery(q, fb) ==
    IF fb # <<>>
    THEN <<q, <<>>, <<"[Validation Feedback]">>>> \o [i \in 1..Len(fb) |-> <<"-">> \o fb[i]]
    ELSE <<q>>

AnsClean  == << <<"first", "second", "finally", "W1">> >>
AnsOrphan == << <<"first", "second", "finally", "#9">>, <<"glossary">> >>
AnsUncited == << <<"first", "second", "finally">>, <<"glossary">> >>
SynthAnswers == {AnsClean, AnsOrphan, AnsUncited}

WebNoMatch == <<"[Web Validation] No direct match between answer and web search titles.">>

ChatQueries   == {QueryB, QueryC}
ChatFeedbacks == {Feedback(QueryB, CorrectX, <<QueryC>>)}
\* request bodies of the feedback route: complete, or with one field missing
CorrectionBodies ==
    ChatFeedbacks
    \cup {[Feedback(QueryB, CorrectX, <<>>) EXCEPT !.originalQuery = <<>>],
          [Feedback(QueryB, CorrectX, <<>>) EXCEPT !.wrongAnswer = <<>>],
          [Feedback(QueryB, CorrectX, <<>>) EXCEPT !.correctAnswer = <<>>]}

\* body.maxIter of the request: absent or not a number, or a number
MaxIterBodies ==
    {[isNumber |-> FALSE, twice |-> 6]}
    \cup {[isNumber |-> TRUE, twice |-> t] : t \in {-2, 0, 1, 2, 3, 2 * ITER_CAP + 2}}

\* a request for more iterations than the cap; the loop does not read the cache
\* nor what the lookup returned, so these long runs are explored after one kind
\* of miss only, on the empty cache
OverCap(m) == m.isNumber /\ m.twice > 2 * ITER_CAP

ChatInit ==
    /\ pc = "idle"
    /\ query = <<>>
    /\ cacheHit = Miss(0)
    /\ MAX_ITER2 = 0
    /\ iter = 0
    /\ retrieval = <<>>
    /\ synthesis = <<>>
    /\ validation = <<>>
    /\ feedback = <<>>
    /\ calls = NoCalls
    /\ response = <<>>


\* mutant: the notes are read with optional chaining, nothing throws
NullDerefNever(x) == FALSE

\* lastSynthesisNotes = synthesis.synthesisNotes, lastValidationNotes =
\* validation.validationNotes: reading a property of null throws a TypeError
NullDeref(x) == x = <<>>

\* processQuery rejects; the catch of handleChat answers with the error payload
ProcessQueryThrows(c) ==
    /\ pc' = "responded"
    /\ response' = <<ErrorResponse>>
    /\ calls' = [c EXCEPT !.processQuery = "threw"]

\* processQuery returns {conversationId, answer, citations}
ProcessQueryReturns(c, v, r) ==
    /\ pc' = "responded"
    /\ response' = <<RagResponse(FinalAnswer(v), FinalCitations(r))>>
    /\ calls' = [c EXCEPT !.processQuery = "returned"]

\* handleChat up to the first await of processQuery: the cache is looked up,
\* a hit is answered at once, a miss starts the pipeline
ChatRequest ==
    /\ pc = "idle"
    /\ \E q \in ChatQueries, m \in MaxIterBodies, sem \in SemOutcomesScored(index, ChatScores) :
          LET maxIter == ClampMaxIter(m)
              r       == checkCorrectionCache(env, kv, q, sem)
              hit     == r.result
          IN /\ OverCap(m) => (sem.fails /\ kv = EmptyKV /\ index = EmptyIndex)
             /\ LookupEffect(q, sem, r)
             /\ query' = q
             /\ cacheHit' = hit
             /\ IF hit.found /\ hit.correction # <<>>
                THEN /\ response' = <<CacheHitResponse(hit)>>
                     /\ pc' = "responded"
                     /\ UNCHANGED <<MAX_ITER2, calls>>
                ELSE /\ pc' = "Retrieving"
                     /\ MAX_ITER2' = ClampMaxIter(maxIter).twice
                     /\ calls' = [calls EXCEPT !.processQuery = "running"]
                     /\ UNCHANGED response
    /\ UNCHANGED <<iter, retrieval, synthesis, validation, feedback, valVars, sideVars>>

\* retrieval = await this.retrievalAgent.execute(env, query), or its catch
Retrieve ==
    /\ pc = "Retrieving"
    /\ \E out \in {<<>>} \cup {<<r>> : r \in RetrievalPool} :
          LET c == [calls EXCEPT !.retrieval = @ + 1,
                                 !.threw = IF out = <<>> THEN @ \cup {"retrieval"} ELSE @]
          IN /\ retrieval' = out
             /\ iter' = 0
             /\ IF LoopContinues(0, MAX_ITER2)
                THEN pc' = "Synthesizing" /\ calls' = c /\ UNCHANGED response
                ELSE ProcessQueryReturns(c, validation, out)
    /\ UNCHANGED <<query, cacheHit, MAX_ITER2, synthesis, validation, feedback,
                   valVars, cacheVars, sideVars>>

SynthOutcomes(r) ==
    IF r = <<>>
    THEN {[called |-> FALSE, threw |-> TRUE, answer |-> <<>>]}
    ELSE {[called |-> TRUE, threw |-> TRUE, answer |-> <<>>]}
         \cup {[called |-> TRUE, threw |-> FALSE, answer |-> a] : a \in SynthAnswers}

\* the synthesis stage of one iteration, up to lastSynthesisNotes = ...
Synthesize ==
    /\ pc = "Synthesizing"
    /\ \E out \in SynthOutcomes(retrieval) :
          LET s == IF out.threw THEN synthesis
                   ELSE <<[answer |-> out.answer,
                           synthesisNotes |->
                               SynthesisNotes(out.answer, retrieval[1].knowledgeGaps)]>>
              c == [calls EXCEPT
                      !.synthesis = IF out.called THEN @ + 1 ELSE @,
                      !.started = iter + 1,
                      !.synthFresh = ~out.threw,
                      !.synthInput = IF out.called
                                     THEN <<SynthesisQuery(query, feedback)>> ELSE @,
                      !.threw = IF out.threw THEN @ \cup {"synthesis"} ELSE @,
                      !.firstIterThrew = IF out.threw /\ out.called /\ iter = 0
                                         THEN @ \cup {"synthesis"} ELSE @]
          IN /\ synthesis' = s
             /\ IF NullDeref(s)
                THEN ProcessQueryThrows(c)
                ELSE pc' = "Validating" /\ calls' = c /\ UNCHANGED response
    /\ UNCHANGED <<query, cacheHit, MAX_ITER2, iter, retrieval, validation, feedback,
                   valVars, cacheVars, sideVars>>

\* the validation stage of one iteration, up to lastValidationNotes = ...
Validate ==
    /\ pc = "Validating"
    /\ \E validatorThrows \in BOOLEAN :
          LET called == synthesis # <<>> /\ retrieval # <<>>
              threw  == ~called \/ validatorThrows
              v == IF threw THEN validation
                   ELSE <<QualityValidationExecute(synthesis[1].answer,
                                                   retrieval[1].contextBlocks,
                                                   synthesis[1].synthesisNotes)>>
              c == [calls EXCEPT
                      !.validation = IF called THEN @ + 1 ELSE @,
                      !.valFresh = ~threw,
                      !.threw = IF threw THEN @ \cup {"validation"} ELSE @,
                      !.firstIterThrew = IF threw /\ called /\ iter = 0
                                         THEN @ \cup {"validation"} ELSE @]
          IN /\ validation' = v
             /\ IF NullDeref(v)
                THEN ProcessQueryThrows(c)
                ELSE pc' = "WebValidating" /\ calls' = c /\ UNCHANGED response
    /\ UNCHANGED <<query, cacheHit, MAX_ITER2, iter, retrieval, synthesis, feedback,
                   valVars, cacheVars, sideVars>>

WebOutcomes == {[threw |-> TRUE, notes |-> <<>>], [threw |-> FALSE, notes |-> <<WebNoMatch>>]}

\* lastValidationNotes.push(...webValidation.validationNotes): lastValidationNotes
\* is validation.validationNotes itself, the push extends the notes of the
\* validation result; nothing is pushed when the web validation threw
WebNotesPushed(v, synth, w) ==
    IF synth # <<>> /\ ~w.threw /\ w.notes # <<>> /\ v # <<>>
    THEN <<[v[1] EXCEPT !.validationNotes = @ \o w.notes]>>
    ELSE v

\* mutant: notes without feedback also ask for a new synthesis
NextFeedbackFromNotes(v) ==
    IF v # <<>> /\ v[1].feedbackForSynthesis # <<>> THEN v[1].feedbackForSynthesis
    ELSE IF v # <<>> /\ v[1].validationNotes # <<>> THEN v[1].validationNotes
    ELSE <<>>

\* feedback = validation.feedbackForSynthesis when that is a non-empty list, else []
NextFeedback(v) ==
    IF v # <<>> /\ v[1].feedbackForSynthesis # <<>> THEN v[1].feedbackForSynthesis ELSE <<>>

\* the web validation stage, the feedback decision and the loop's step; when
\* the loop ends, the final answer and citations are assembled and returned
WebValidate ==
    /\ pc = "WebValidating"
    /\ \E w \in WebOutcomes :
          LET called == synthesis # <<>>
              threw  == ~called \/ w.threw
              v  == WebNotesPushed(validation, synthesis, w)
              fb == NextFeedback(v)
              c == [calls EXCEPT
                      !.web = IF called THEN @ + 1 ELSE @,
                      !.firstFeedback = IF iter = 0 THEN fb ELSE @,
                      !.threw = IF threw THEN @ \cup {"web"} ELSE @]
          IN /\ validation' = v
             /\ feedback' = fb
             /\ IF fb = <<>>
                THEN ProcessQueryReturns(c, v, retrieval) /\ UNCHANGED iter
                ELSE /\ iter' = iter + 1
                     /\ IF LoopContinues(iter + 1, MAX_ITER2)
                        THEN pc' = "Synthesizing" /\ calls' = c /\ UNCHANGED response
                        ELSE ProcessQueryReturns(c, v, retrieval)
    /\ UNCHANGED <<query, cacheHit, MAX_ITER2, retrieval, synthesis, valVars, cacheVars, sideVars>>

\* the response has gone out; the next request starts from scratch
ChatDone ==
    /\ pc = "responded"
    /\ pc' = "idle"
    /\ query' = <<>>
    /\ cacheHit' = Miss(0)
    /\ MAX_ITER2' = 0
    /\ iter' = 0
    /\ retrieval' = <<>>
    /\ synthesis' = <<>>
    /\ validation' = <<>>
    /\ feedback' = <<>>
    /\ calls' = NoCalls
    /\ response' = <<>>
    /\ UNCHANGED <<valVars, cacheVars, sideVars>>

\* a correction is submitted between two chat requests
SubmitCorrection ==
    /\ pc = "idle"
    /\ SubmitFrom(CorrectionBodies)
    /\ UNCHANGED <<valVars, chatVars, sideVars>>

(***************************************************************************)
(* Specifications.                                                         *)
(***************************************************************************)
\* a correction is deleted between two chat requests
RemoveCorrection ==
    /\ pc = "idle"
    /\ DeleteFrom({hashString(NormalizedQuery[fb.originalQuery]) : fb \in ChatFeedbacks})
    /\ UNCHANGED <<valVars, chatVars, sideVars>>

\* nothing runs on the side
SideIdle ==
    /\ nIn = <<>>
    /\ nOut = <<>>
    /\ lk = <<>>
    /\ sel = <<>>
    /\ ret = <<>>
    /\ emb = <<>>
    /\ win = <<>>

Init == ValidateIdle /\ ChatInit /\ CacheInit /\ SideIdle

\* one chat request after the other, corrections submitted in between
Next ==
    \/ ChatRequest
    \/ Retrieve
    \/ Synthesize
    \/ Validate
    \/ WebValidate
    \/ ChatDone
    \/ SubmitCorrection
    \/ RemoveCorrection

Spec == Init /\ [][Next]_vars

\* the correction cache under store, lookup, get and delete
CacheNext ==
    \/ CacheStore
    \/ CacheLookup
    \/ CacheDelete
    \/ CacheGet

\* the cache starts empty, in any deployment
InitCache == ValidateIdle /\ ChatInit /\ CacheEmpty(Envs) /\ SideIdle

SpecCache == InitCache /\ [][CacheNext]_vars

\* repeated submissions for one question
VariantNext ==
    \/ VariantStore
    \/ VariantDelete

SpecVariants == Init /\ [][VariantNext]_vars

(***************************************************************************)
(* Lookups that hit one correction while other lookups are in flight.  A   *)
(* hit is two awaited KV calls, the get of the record and the put of the   *)
(* record with its counters updated; requests interleave at each await.    *)
(***************************************************************************)
NumLookups == 3
Lookups    == 1..NumLookups

\* one correction stored and indexed, no lookup started
RaceInit ==
    /\ \E fb \in {f \in Feedbacks : f.originalQuery = QueryB} :
          LET r == storeCorrectionInCache(Provisioned, EmptyKV, EmptyIndex, fb, FALSE)
          IN kv = r.kv /\ index = r.index
    /\ lastOp = [op |-> "none"]
    /\ committed = [k \in CacheKeys |-> <<>>]
    /\ clean = [k \in CacheKeys |-> FALSE]
    /\ env = Provisioned
    /\ nIn = <<>>
    /\ nOut = <<>>
    /\ lk = [p \in Lookups |-> [pc |-> "start", tier |-> "none", key |-> <<>>, read |-> <<>>]]
    /\ sel = <<>>
    /\ ret = <<>>
    /\ emb = <<>>
    /\ win = <<>>

\* the keys a lookup can go to: its exact key, or the kvKey of the nearest
\* match the index answered with
HitKeys(tier) ==
    IF tier = "exact"
    THEN {KeyOfQuery(QueryB)}
    ELSE {index[v][1].kvKey[1] : v \in {w \in DOMAIN index : index[w] # <<>>}}

\* await env.CORRECTION_QA_KV.get(key): the lookup holds its own copy of the record
LookupGet(p) ==
    /\ lk[p].pc = "start"
    /\ \E tier \in {"exact", "semantic"} : \E key \in HitKeys(tier) :
          LET data == KVGet(kv, key)
          IN lk' = [lk EXCEPT ![p] = [pc |-> IF data = <<>> THEN "missed" ELSE "read",
                                       tier |-> tier, key |-> <<key>>, read |-> data]]
    /\ UNCHANGED <<kv, index, lastOp, committed, clean, env, nIn, nOut, sel, ret, emb, win, valVars, chatVars>>

\* await env.CORRECTION_QA_KV.put(key, JSON.stringify(correction)), then the hit is returned
LookupPut(p) ==
    /\ lk[p].pc = "read"
    /\ kv' = KVPut(kv, lk[p].key[1], TouchCorrection(lk[p].read[1]), <<>>)
    /\ lk' = [lk EXCEPT ![p].pc = "hit", ![p].read = <<TouchCorrection(@[1])>>]
    /\ UNCHANGED <<index, lastOp, committed, clean, env, nIn, nOut, sel, ret, emb, win, valVars, chatVars>>

RaceNext == \E p \in Lookups : LookupGet(p) \/ LookupPut(p)

InitRace == ValidateIdle /\ ChatInit /\ RaceInit

SpecRace == InitRace /\ [][RaceNext]_vars

\* the submissions and the id of the correction the lookups hit
RaceFeedbacks == {f \in Feedbacks : f.originalQuery = QueryB}
RaceId        == hashString(NormalizedQuery[QueryB])

\* a store of the correction completes while lookups are in flight (its own
\* get and put are taken here without another request in between)
RaceStore ==
    /\ \E fb \in RaceFeedbacks :
          LET r == storeCorrectionInCache(env, kv, index, fb, FALSE)
          IN /\ kv' = r.kv
             /\ index' = r.index
             /\ committed' = [committed EXCEPT ![KeyOfQuery(QueryB)] = <<fb.correctAnswer>>]
             /\ lastOp' = [op |-> "store", key |-> KeyOfQuery(QueryB),
                           stored |-> KVGet(r.kv, KeyOfQuery(QueryB))]
    /\ UNCHANGED <<clean, env, nIn, nOut, lk, sel, ret, emb, win, valVars, chatVars>>

\* a delete of the correction completes while lookups are in flight
RaceDelete ==
    /\ kv' = deleteCorrectionById(env, kv, RaceId)
    /\ committed' = [committed EXCEPT ![KeyOfQuery(QueryB)] = <<>>]
    /\ lastOp' = [op |-> "delete", key |-> KeyOfQuery(QueryB), stored |-> <<>>]
    /\ UNCHANGED <<index, clean, env, nIn, nOut, lk, sel, ret, emb, win, valVars, chatVars>>

RaceWritesNext ==
    \/ \E p \in Lookups : LookupGet(p)
    \/ \E p \in Lookups : LookupPut(p)
    \/ RaceStore
    \/ RaceDelete

\* lookups, stores and deletes of one correction, interleaved at every await
SpecRaceWrites == InitRace /\ [][RaceWritesNext]_vars

(***************************************************************************)
(* normalizeQuery called on strings: letters of stop words in both cases,  *)
(* a space, a punctuation mark that is removed and one that is kept.       *)
(***************************************************************************)
MaxQueryLen == 3
NormChars   == {"i", "s", "a", "S", " ", "?", "-"}
NormInputs  == SeqsUpTo(NormChars, MaxQueryLen)

NormalizeInit ==
    /\ nIn \in NormInputs
    /\ nOut = <<>>
    /\ lk = <<>>
    /\ sel = <<>>
    /\ ret = <<>>
    /\ emb = <<>>
    /\ win = <<>>

NormalizeCall ==
    /\ nOut = <<>>
    /\ nOut' = <<normalizeQuery(nIn)>>
    /\ UNCHANGED <<nIn, lk, sel, ret, emb, win, env, valVars, chatVars, cacheVars>>

InitNormalize == ValidateIdle /\ ChatInit /\ CacheInit /\ NormalizeInit

SpecNormalize == InitNormalize /\ [][NormalizeCall]_vars

(***************************************************************************)
(* pickContext (index.ts): the chunks handed to the reader, chosen from    *)
(* the fused candidates by rerank score, at most PER_DOC_CAP per document, *)
(* then topped up towards MIN_DISTINCT_DOCS documents.  A chunk is         *)
(* [id, docId]; docId is the id its document was ingested under, a string  *)
(* the ingesting client chooses ("" when the metadata carries no doc_id).  *)
(* The reranker answers with a list of [index, score] of its own choosing: *)
(* it may leave candidates out, name one twice or name an index that is    *)
(* not there (retrieval.ts, rerank).                                       *)
(***************************************************************************)
PER_DOC_CAP       == 2
MIN_DISTINCT_DOCS == 2

MaxCandidates == 3
DocPool       == <<"A", "B", "constructor">>
RerankScores  == {0, 1}

\* the names every object literal inherits from Object.prototype
ObjectPrototypeKeys == {"constructor", "toString", "valueOf", "hasOwnProperty", "__proto__"}

\* the candidate lists, grouped by document: pickContext sees the order of
\* the candidates only through the indices the reranker names
CandidateLists ==
    { [i \in 1..Len(pick) |-> [id |-> i, docId |-> DocPool[pick[i]]]] :
        pick \in { q \in SeqsUpTo(DOMAIN DocPool, MaxCandidates) :
                     /\ q # <<>>
                     /\ \A i \in 1..(Len(q) - 1) : q[i] <= q[i + 1] } }

\* what rerank can return for n candidates (indices are 0-based)
RerankOutputs(n) == SeqsUpTo([index : 0..n, score : RerankScores], n) \ {<<>>}

InsertByScore(x, s) ==
    LET before == {i \in DOMAIN s : \A j \in 1..i : s[j].r.score >= x.r.score}
        k      == Cardinality(before)
    IN SubSeq(s, 1, k) \o <<x>> \o SubSeq(s, k + 1, Len(s))

\* Array.prototype.sort with (a, b) => b.r.score - a.r.score: stable, descending
RECURSIVE SortByScore(_)
SortByScore(s) ==
    IF s = <<>> THEN <<>>
    ELSE InsertByScore(s[Len(s)], SortByScore(SubSeq(s, 1, Len(s) - 1)))

\* reranked.map(r => ({r, c: candidates[r.index]})).filter(x => x.c).sort(...)
Sorted(candidates, reranked) ==
    LET kept == SelectSeq(reranked, LAMBDA r : r.index + 1 \in DOMAIN candidates)
    IN SortByScore([i \in DOMAIN kept |-> [r |-> kept[i], c |-> candidates[kept[i].index + 1]]])

DocCount(selected, docId) == Cardinality({i \in DOMAIN selected : selected[i].docId = docId})

\* docCounts[docId] || 0, docCounts being an object literal that holds the
\* number of selected chunks per docId: <<the number>>, or <<>> when the name
\* is an inherited one (the inherited member is read, and then the string
\* that `count + 1` made of it)
DocCountRead(selected, docId) ==
    IF docId \in ObjectPrototypeKeys THEN <<>> ELSE <<DocCount(selected, docId)>>

\* count >= PER_DOC_CAP; a comparison with what is not a number is false
OverDocCap(count) == count # <<>> /\ count[1] >= PER_DOC_CAP

\* the first loop: by descending score, skipping a document that is full
RECURSIVE SelectLoop(_, _, _, _)
SelectLoop(sorted, i, selected, topRerank) ==
    IF i > Len(sorted) THEN selected
    ELSE LET c == sorted[i].c
         IN IF c.docId # "" /\ OverDocCap(DocCountRead(selected, c.docId))
            THEN SelectLoop(sorted, i + 1, selected, topRerank)
            ELSE LET pushed == Append(selected, c)
                 IN IF Len(pushed) >= topRerank THEN pushed
                    ELSE SelectLoop(sorted, i + 1, pushed, topRerank)

\* the second loop: chunks of documents not yet selected, while there is room
RECURSIVE DistinctLoop(_, _, _, _, _)
DistinctLoop(sorted, i, selected, haveDistinct, topRerank) ==
    IF i > Len(sorted) THEN selected
    ELSE LET c == sorted[i].c
         IN IF c \in Range(selected) \/ c.docId = "" \/ c.docId \in haveDistinct
            THEN DistinctLoop(sorted, i + 1, selected, haveDistinct, topRerank)
            ELSE LET room == Len(selected) < topRerank
                     sel2 == IF room THEN Append(selected, c) ELSE selected
                     have == IF room THEN haveDistinct \cup {c.docId} ELSE haveDistinct
                 IN IF Cardinality(have) >= MIN_DISTINCT_DOCS THEN sel2
                    ELSE DistinctLoop(sorted, i + 1, sel2, have, topRerank)

pickContext(candidates, reranked, topRerank) ==
    IF candidates = <<>> THEN <<>>
    ELSE LET sorted       == Sorted(candidates, reranked)
             selected     == SelectLoop(sorted, 1, <<>>, topRerank)
             haveDistinct == {selected[i].docId : i \in DOMAIN selected}
         IN IF Cardinality(haveDistinct) < MIN_DISTINCT_DOCS
            THEN DistinctLoop(sorted, 1, selected, haveDistinct, topRerank)
            ELSE selected

SelectInit ==
    /\ \E candidates \in CandidateLists :
       \E reranked \in RerankOutputs(Len(candidates)) :
       \E topRerank \in 0..MaxCandidates :
          sel = <<[candidates |-> candidates, reranked |-> reranked,
                   topRerank |-> topRerank, called |-> FALSE, selected |-> <<>>]>>
    /\ nIn = <<>>
    /\ nOut = <<>>
    /\ lk = <<>>
    /\ ret = <<>>
    /\ emb = <<>>
    /\ win = <<>>

SelectCall ==
    /\ ~sel[1].called
    /\ sel' = <<[sel[1] EXCEPT !.called = TRUE,
                    !.selected = pickContext(sel[1].candidates, sel[1].reranked,
                                             sel[1].topRerank)]>>
    /\ UNCHANGED <<nIn, nOut, lk, ret, emb, win, env, valVars, chatVars, cacheVars>>

InitSelect == ValidateIdle /\ ChatInit /\ CacheInit /\ SelectInit

SpecSelect == InitSelect /\ [][SelectCall]_vars

(***************************************************************************)
(* KnowledgeRetrievalAgent.execute and the fusion of handleQuery: every    *)
(* variant of the query is embedded, the vector index is queried with      *)
(* every vector that is not empty, and the ranked lists are fused by       *)
(* reciprocal rank.  A ranked list is a sequence of chunk ids.  Scores are *)
(* kept exact: 1/(K + idx + 1) is held as RrfScale / (K + idx + 1), where  *)
(* RrfScale is the product of the denominators that occur.                 *)
(***************************************************************************)
K           == 60
MAX_RETRIES == 3
TOP_K       == 20
EMBED_DIM   == 1024

MaxExpansions == 1
MaxListLen    == 3
ChunkIds      == {"x", "y", "z"}

RankedLists(n) ==
    {l \in SeqsUpTo(ChunkIds, n) : \A i, j \in DOMAIN l : i # j => l[i] # l[j]}

\* the orders in which n promises can settle
AllOrders(n) == {f \in [1..n -> 1..n] : \A i, j \in 1..n : i # j => f[i] # f[j]}

\* the orders that are tried: first to last, and last to first
SettleOrders(n) == {[i \in 1..n |-> i], [i \in 1..n |-> n + 1 - i]}

RETRY_DELAY == 2000

\* what one attempt meets: env.AI.run answers a valid vector; or an invalid
\* one and the REST call a valid one, an invalid one or null, or throws; or
\* env.AI.run throws
TryOutcomes  == {"valid", "restValid", "restInvalid", "restThrows", "aiThrows"}
\* the REST call in the catch of the last attempt
RestOutcomes == {"valid", "invalid", "throws"}

\* mutant: the exponent counts from the attempt, not from zero
RetryDelayDoubled(attempt) == RETRY_DELAY * 2 ^ attempt

\* const delay = RETRY_DELAY * Math.pow(2, attempt - 1)
RetryDelay(attempt) == RETRY_DELAY * 2 ^ (attempt - 1)

\* the for loop of embedTextSingle from the given attempt on; delays are the
\* waits made so far, rest counts the REST calls
RECURSIVE EmbedAttempts(_, _, _, _, _)
EmbedAttempts(tries, lastRest, attempt, delays, rest) ==
    LET t == tries[attempt]
        done(from, restCalls) ==
            [attempts |-> attempt, delays |-> delays, restCalls |-> restCalls,
             threw |-> FALSE, from |-> from,
             vector |-> [length |-> EMBED_DIM, zeros |-> from = "zeros"]]
        rest1 == IF t \in {"restValid", "restInvalid", "restThrows"} THEN rest + 1 ELSE rest
    IN IF t = "valid" THEN done("model", rest)
       ELSE IF t = "restValid" THEN done("rest", rest1)
       ELSE IF attempt = MAX_RETRIES
       THEN IF lastRest = "valid" THEN done("rest", rest1 + 1) ELSE done("zeros", rest1 + 1)
       ELSE EmbedAttempts(tries, lastRest, attempt + 1, Append(delays, RetryDelay(attempt)), rest1)

embedTextSingle(tries, lastRest) == EmbedAttempts(tries, lastRest, 1, <<>>, 0)

\* embedText for a text the embedding model and its REST fallback answer
\* (fails = FALSE) or fail every time (fails = TRUE)
embedText(fails) ==
    LET e == IF fails THEN embedTextSingle([a \in 1..MAX_RETRIES |-> "aiThrows"], "throws")
             ELSE embedTextSingle([a \in 1..MAX_RETRIES |-> "valid"], "valid")
    IN [attempts |-> e.attempts, threw |-> e.threw,
        vector   |-> [length |-> e.vector.length, zeros |-> e.vector.zeros]]

\* embedText(env, t).catch(() => [])
EmbedOrEmpty(fails) ==
    LET e == embedText(fails)
    IN IF e.threw THEN [length |-> 0, zeros |-> FALSE] ELSE e.vector

\* mutant: the results are collected in the order in which the promises settle
PromiseAllAsSettled(slots, settled, results) ==
    [k \in DOMAIN slots |-> IF k \in DOMAIN settled /\ settled[k] \in DOMAIN results
                            THEN results[settled[k]] ELSE slots[k]]

\* Promise.all: each result is stored at the position of its promise,
\* whatever the order in which the promises settle
RECURSIVE PromiseAll(_, _, _)
PromiseAll(slots, settled, results) ==
    IF settled = <<>> THEN slots
    ELSE PromiseAll([slots EXCEPT ![Head(settled)] = results[Head(settled)]],
                    Tail(settled), results)

\* vectors.filter(v => Array.isArray(v) && v.length > 0): the positions kept
Usable(vectors) == SelectSeq([i \in DOMAIN vectors |-> i], LAMBDA i : vectors[i].length > 0)

RECURSIVE RrfDenominators(_)
RrfDenominators(n) == IF n = 0 THEN 1 ELSE (K + n) * RrfDenominators(n - 1)

RrfScale == RrfDenominators(MaxListLen)

\* mutant: ranks counted from 1
RrfOneBased(idx) == RrfScale \div (K + idx + 2)

\* const rrf = 1 / (K + idx + 1)
Rrf(idx) == RrfScale \div (K + idx + 1)

NoneFused == [order |-> <<>>, score |-> [id \in ChunkIds |-> 0]]

\* list.forEach((m, idx) => ...): fused is an object keyed by id, held as the
\* order in which its keys were created and the score under each key
RECURSIVE FuseList(_, _, _)
FuseList(fused, list, i) ==
    IF i > Len(list) THEN fused
    ELSE LET id   == list[i]
             rrf  == Rrf(i - 1)
             next == IF id \notin Range(fused.order)
                     THEN [order |-> Append(fused.order, id),
                           score |-> [fused.score EXCEPT ![id] = rrf]]
                     ELSE [fused EXCEPT !.score[id] = @ + rrf]
         IN FuseList(next, list, i + 1)

\* perQueryResults.forEach(list => ...)
RECURSIVE FuseAll(_, _)
FuseAll(fused, lists) ==
    IF lists = <<>> THEN fused
    ELSE FuseAll(FuseList(fused, Head(lists), 1), Tail(lists))

InsertByFusedScore(x, s) ==
    LET before == {i \in DOMAIN s : \A j \in 1..i : s[j].score >= x.score}
        k      == Cardinality(before)
    IN SubSeq(s, 1, k) \o <<x>> \o SubSeq(s, k + 1, Len(s))

\* .sort((a, b) => b.score - a.score): stable, descending
RECURSIVE SortByFusedScore(_)
SortByFusedScore(s) ==
    IF s = <<>> THEN <<>>
    ELSE InsertByFusedScore(s[Len(s)], SortByFusedScore(SubSeq(s, 1, Len(s) - 1)))

\* Object.values(fused).sort(...).slice(0, topK).map(x => x.item)
FusedCandidates(lists, topK) ==
    LET fused  == FuseAll(NoneFused, lists)
        values == [i \in DOMAIN fused.order |->
                      [item |-> fused.order[i], score |-> fused.score[fused.order[i]]]]
        sorted == SortByFusedScore(values)
    IN SubSeq(sorted, 1, Min(topK, Len(sorted)))

\* .map(x => x.item)
RECURSIVE Items(_)
Items(s) == IF s = <<>> THEN <<>> ELSE <<Head(s).item>> \o Items(Tail(s))

\* extractTopic, by the content of the chunk
extractTopic(id) == IF id = "z" THEN "GATT/GAP" ELSE "Security"

\* mutant: the fill does not look for the id among the blocks taken
ContextWindowFillAll(candidates, topicOf) ==
    LET keys       == Dedup([i \in DOMAIN candidates |-> topicOf[candidates[i]]])
        blocks(t)  == SelectSeq(candidates, LAMBDA c : topicOf[c] = t)
        floor      == IF keys = <<>> THEN TOP_K ELSE TOP_K \div Len(keys)
        perCluster == IF floor > 1 THEN floor ELSE 1
        taken      == Concat([k \in DOMAIN keys |->
                         SubSeq(blocks(keys[k]), 1, Min(perCluster, Len(blocks(keys[k]))))])
    IN IF Len(taken) < TOP_K
       THEN taken \o SubSeq(candidates, 1, Min(Len(candidates), TOP_K - Len(taken)))
       ELSE taken

\* the context window: perCluster chunks of every cluster, in the order in
\* which the clusters were created, then the candidates not yet taken;
\* topicOf[c] is extractTopic of the candidate c
ContextWindowOf(candidates, topicOf) ==
    LET keys       == Dedup([i \in DOMAIN candidates |-> topicOf[candidates[i]]])
        blocks(t)  == SelectSeq(candidates, LAMBDA c : topicOf[c] = t)
        floor      == IF keys = <<>> THEN TOP_K ELSE TOP_K \div Len(keys)
        perCluster == IF floor > 1 THEN floor ELSE 1
        taken      == Concat([k \in DOMAIN keys |->
                         SubSeq(blocks(keys[k]), 1, Min(perCluster, Len(blocks(keys[k]))))])
        missing    == SelectSeq(candidates, LAMBDA c : c \notin Range(taken))
    IN IF Len(taken) < TOP_K
       THEN taken \o SubSeq(missing, 1, Min(Len(missing), TOP_K - Len(taken)))
       ELSE taken

ContextWindow(candidates) ==
    ContextWindowOf(candidates, [c \in ChunkIds |-> extractTopic(c)])

\* contextBlocks.push({id, title, source, content, sectionTag})
RECURSIVE TaggedBlocks(_)
TaggedBlocks(ids) ==
    IF ids = <<>> THEN <<>>
    ELSE <<Block(Head(ids), "", "", <<>>, extractTopic(Head(ids)))>> \o TaggedBlocks(Tail(ids))

\* the embedding, query and fusion steps the agent and handleQuery share
EmbedQueryFuse(r, topK) ==
    LET n        == Len(r.fails)
        embedded == [i \in 1..n |-> EmbedOrEmpty(r.fails[i])]
        vectors  == PromiseAll([i \in 1..n |-> <<>>], r.settled, embedded)
        queried  == Usable(vectors)
        perQueryResults == PromiseAll([i \in DOMAIN queried |-> <<>>],
                                      SelectSeq(r.settled, LAMBDA i : i \in DOMAIN queried),
                                      [i \in DOMAIN queried |-> r.lists[queried[i]]])
    IN [attempts |-> [i \in 1..n |-> embedText(r.fails[i]).attempts],
        vectors  |-> vectors,
        queried  |-> queried,
        perQueryResults |-> perQueryResults,
        fused    |-> FusedCandidates(perQueryResults, topK)]

\* processQuery, on what execute did: the catch around it ends the request
Proceeds(threw) == IF threw THEN "error" ELSE "synthesis"

\* the agent asks for TOP_K matches, handleQuery for the topK of its request;
\* the embedding fails for any of the agent's texts, for none of handleQuery's
Callers == {[caller |-> "execute", topK |-> TOP_K]}
           \cup {[caller |-> "handleQuery", topK |-> k] : k \in 1..(MaxListLen - 1)}

RetrieveInit ==
    /\ \E c \in Callers, n \in 1..(1 + MaxExpansions) :
       \E fails \in IF c.caller = "execute" THEN [1..n -> BOOLEAN] ELSE {[i \in 1..n |-> FALSE]} :
       \E lists \in [1..n -> RankedLists(Min(MaxListLen, c.topK))] :
       \E settled \in SettleOrders(n) :
          ret = <<[caller |-> c.caller, topK |-> c.topK, fails |-> fails, lists |-> lists,
                   settled |-> settled, called |-> FALSE, out |-> <<>>]>>
    /\ nIn = <<>>
    /\ nOut = <<>>
    /\ lk = <<>>
    /\ sel = <<>>
    /\ emb = <<>>
    /\ win = <<>>

\* KnowledgeRetrievalAgent.execute
AgentExecute ==
    /\ ret[1].caller = "execute" /\ ~ret[1].called
    /\ LET o  == EmbedQueryFuse(ret[1], TOP_K)
           candidates    == Items(o.fused)
           contextBlocks == TaggedBlocks(ContextWindow(candidates))
       IN ret' = <<[ret[1] EXCEPT
                      !.called = TRUE,
                      !.out = <<[attempts |-> o.attempts, vectors |-> o.vectors,
                                 queried |-> o.queried,
                                 perQueryResults |-> o.perQueryResults,
                                 fused |-> o.fused,
                                 threw |-> FALSE,
                                 proceeds |-> Proceeds(FALSE),
                                 result |-> <<RetrievalResult(contextBlocks)>>]>>]>>
    /\ UNCHANGED <<nIn, nOut, lk, sel, emb, win, env, valVars, chatVars, cacheVars>>

\* handleQuery, up to the fused candidates it hands to pickContext
HandleQueryFuse ==
    /\ ret[1].caller = "handleQuery" /\ ~ret[1].called
    /\ LET o == EmbedQueryFuse(ret[1], ret[1].topK)
       IN ret' = <<[ret[1] EXCEPT
                      !.called = TRUE,
                      !.out = <<[attempts |-> o.attempts, vectors |-> o.vectors,
                                 queried |-> o.queried,
                                 perQueryResults |-> o.perQueryResults,
                                 fused |-> o.fused,
                                 threw |-> FALSE,
                                 proceeds |-> "pickContext",
                                 result |-> <<>>]>>]>>
    /\ UNCHANGED <<nIn, nOut, lk, sel, emb, win, env, valVars, chatVars, cacheVars>>

RetrieveNext == AgentExecute \/ HandleQueryFuse

InitRetrieve == ValidateIdle /\ ChatInit /\ CacheInit /\ RetrieveInit

SpecRetrieve == InitRetrieve /\ [][RetrieveNext]_vars

\* embedTextSingle called on its own: the model and the REST endpoint answer
\* or fail at each attempt in any way
EmbedInit ==
    /\ \E tries \in [1..MAX_RETRIES -> TryOutcomes], lastRest \in RestOutcomes :
          emb = <<[tries |-> tries, lastRest |-> lastRest, called |-> FALSE, out |-> <<>>]>>
    /\ nIn = <<>>
    /\ nOut = <<>>
    /\ lk = <<>>
    /\ sel = <<>>
    /\ ret = <<>>
    /\ win = <<>>

EmbedCall ==
    /\ ~emb[1].called
    /\ emb' = <<[emb[1] EXCEPT !.called = TRUE,
                    !.out = <<embedTextSingle(emb[1].tries, emb[1].lastRest)>>]>>
    /\ UNCHANGED <<nIn, nOut, lk, sel, ret, win, env, valVars, chatVars, cacheVars>>

InitEmbed == ValidateIdle /\ ChatInit /\ CacheInit /\ EmbedInit

SpecEmbed == InitEmbed /\ [][EmbedCall]_vars

\* the topics extractTopic can answer with: the four it finds in the content,
\* "unknown", and the title of the chunk's document
TopicNames == <<"Controller/PHY", "GATT/GAP", "Advertising/Scanning", "Security",
                "unknown", "Core Specification", "constructor">>

\* how n ranked candidates fall into c clusters: in turn; all but c - 1 in
\* the first cluster; all but c - 1 in the last
ClusterShapes == {"turns", "firstLarge", "lastLarge"}

TopicIndex(shape, n, c, i) ==
    IF shape = "turns" THEN ((i - 1) % c) + 1
    ELSE IF shape = "firstLarge" THEN (IF i <= n - c + 1 THEN 1 ELSE i - (n - c))
    ELSE (IF i < c THEN i ELSE c)

\* the candidate of rank i has id i; the candidates are at most TOP_K, what
\* the fusion cuts them to; titled: the first cluster is named by a title
\* that is also a name every object inherits
WindowInit ==
    /\ \E n \in 0..TOP_K, c \in 1..(Len(TopicNames) - 1), shape \in ClusterShapes,
          titled \in BOOLEAN :
          /\ c <= n \/ (n = 0 /\ c = 1)
          /\ win = <<[topics |-> [i \in 1..n |->
                                    IF titled /\ TopicIndex(shape, n, c, i) = 1
                                    THEN TopicNames[Len(TopicNames)]
                                    ELSE TopicNames[TopicIndex(shape, n, c, i)]],
                      called |-> FALSE, out |-> <<>>]>>
    /\ nIn = <<>>
    /\ nOut = <<>>
    /\ lk = <<>>
    /\ sel = <<>>
    /\ ret = <<>>
    /\ emb = <<>>

\* steps 4 and 6 of execute: clusters[key].push(c) throws a TypeError when
\* the key names a property the empty object inherits, else the window is built
WindowCall ==
    /\ ~win[1].called
    /\ LET topics     == win[1].topics
           candidates == [i \in DOMAIN topics |-> i]
           threw      == \E i \in DOMAIN topics : topics[i] \in ObjectPrototypeKeys
       IN win' = <<[win[1] EXCEPT
                      !.called = TRUE,
                      !.out = <<[threw |-> threw,
                                 window |-> IF threw THEN <<>>
                                            ELSE ContextWindowOf(candidates, topics)]>>]>>
    /\ UNCHANGED <<nIn, nOut, lk, sel, ret, emb, env, valVars, chatVars, cacheVars>>

InitWindow == ValidateIdle /\ ChatInit /\ CacheInit /\ WindowInit

SpecWindow == InitWindow /\ [][WindowCall]_vars

\* the validator called on answers, context blocks and notes
ValidateNext == ValidateCall /\ UNCHANGED <<chatVars, cacheVars, sideVars>>

InitValidate == ValidateInit /\ ChatInit /\ CacheInit /\ SideIdle

SpecValidate == InitValidate /\ [][ValidateNext]_vars


(***************************************************************************)
(* Properties.                                                             *)
(***************************************************************************)
Responded == pc = "responded" /\ response # <<>>

\* C1: processQuery runs at most L synthesize->validate iterations, where
\* L = min(maxIter, 10) for a number maxIter > 0 and L = 2 otherwise; it never
\* starts iteration L + 1.  (MAX_ITER2 is 2 * L.)
C1_IterationBound == 2 * calls.started <= MAX_ITER2

\* C1, for the values the loop counter can take: with L a whole number the
\* bound holds, and no request runs more than ITER_CAP iterations
C1_WholeNumberBound ==
    /\ MAX_ITER2 % 2 = 0 => 2 * calls.started <= MAX_ITER2
    /\ calls.started <= ITER_CAP
    /\ 2 * calls.started <= MAX_ITER2 + 1

\* C2: the correction cache is consulted before the pipeline; on a hit the
\* response is the correction's correctAnswer and no retrieval, synthesis or
\* validation runs for the request; on a miss processQuery runs.
C2_CacheFirst ==
    pc # "idle" =>
        /\ lastOp.op = "lookup" /\ lastOp.query = query /\ lastOp.result = cacheHit
        /\ cacheHit.found =>
              /\ Responded
              /\ response[1].kind = "answer"
              /\ response[1].answer = cacheHit.correction[1].correctAnswer
              /\ calls.processQuery = "none"
              /\ calls.retrieval = 0 /\ calls.synthesis = 0
              /\ calls.validation = 0 /\ calls.web = 0
        /\ ~cacheHit.found => calls.processQuery # "none"

\* C2 witness: a paraphrase was answered from the cache by a semantic hit
C2_Witness ==
    /\ Responded
    /\ cacheHit.found
    /\ cacheHit.confidence < 100
    /\ response[1].answer = CorrectX

SameCorrection(a, b) ==
    [a EXCEPT !.timesReused = 0, !.lastUsed = "unset"]
        = [b EXCEPT !.timesReused = 0, !.lastUsed = "unset"]

\* C3: when the hash key of the normalized query is in the KV store, lookup
\* returns found with confidence 1.0 and the record under that key, and does
\* not consult the vector index, whatever the index would have matched.
C3_ExactMatchWins ==
    (lastOp.op = "lookup" /\ lastOp.exactMatch # <<>>) =>
        /\ lastOp.result.found
        /\ lastOp.result.confidence = 100
        /\ lastOp.result.correction # <<>>
        /\ SameCorrection(lastOp.result.correction[1], lastOp.exactMatch[1])
        /\ lastOp.result.correction[1].id = hashString(NormalizedQuery[lastOp.query])
        /\ ~lastOp.indexQueried

\* C3 witness: the key was present while the index's nearest match had score
\* 1.0 and pointed at a different correction that exists
C3_Witness ==
    /\ lastOp.op = "lookup"
    /\ lastOp.exactMatch # <<>>
    /\ lastOp.sem.matches # <<>>
    /\ lastOp.sem.matches[1].score = 100
    /\ lastOp.semTarget # <<>>
    /\ lastOp.semTarget[1].id # lastOp.exactMatch[1].id
    /\ lastOp.result.found

\* C4: after a store of q with correctAnswer X has succeeded, and no store or
\* delete of that key since, a lookup of any query with q's normalized form
\* returns found, confidence 1.0 and correctAnswer X.
C4_StoreThenLookup ==
    (lastOp.op = "lookup" /\ lastOp.expected # <<>>) =>
        /\ lastOp.result.found
        /\ lastOp.result.confidence = 100
        /\ lastOp.result.correction[1].correctAnswer = lastOp.expected[1]

\* C4 witness: a correction stored for "b?" and then updated to Y is found by
\* the differently written query "a b"
C4_Witness ==
    /\ lastOp.op = "lookup"
    /\ lastOp.query = QueryAB
    /\ lastOp.expected = <<CorrectY>>
    /\ lastOp.result.found
    /\ lastOp.result.correction[1].originalQuestion = QueryB

C6_RetrievalFailureIsTerminal ==
    "retrieval" \in calls.threw =>
        /\ calls.synthesis = 0
        /\ calls.validation = 0
        /\ pc \in {"Synthesizing", "responded"}
        /\ pc = "responded" =>
              /\ response = <<ErrorResponse>>
              /\ calls.processQuery = "threw"

\* C6 witness: a request whose retrieval threw has been answered
C6_Witness ==
    /\ Responded
    /\ "retrieval" \in calls.threw
    /\ response[1].kind = "error"

\* C7: an exception of the Synthesizer or of the Validator, in any iteration,
\* the first included, is caught in its stage: processQuery does not throw and
\* returns a response {conversationId, answer, citations}.
C7_StageExceptionsCaught ==
    (/\ "retrieval" \notin calls.threw
     /\ calls.threw \cap {"synthesis", "validation"} # {}) =>
        /\ calls.processQuery # "threw"
        /\ Responded => response[1].kind = "answer"

\* C7, where it does hold: a stage that throws after the first iteration
\* leaves the earlier stage result in place, and processQuery returns
C7_LaterIterationsCaught ==
    (/\ "retrieval" \notin calls.threw
     /\ calls.firstIterThrew = {}) => calls.processQuery # "threw"

\* the citation tokens of an answer, wherever they stand
CitationsAnywhere(answer) ==
    UNION {{l[i] : i \in {k \in DOMAIN l : IsCitation(l[k])}} : l \in Range(answer)}

ReportedAsOrphan(noteList, ref) ==
    \E k \in DOMAIN noteList :
        /\ noteList[k][1] \in {"Orphan citations:", "Please remove or fix orphan citations:"}
        /\ ref \in Range(Tail(noteList[k]))

\* C8: every citation token of the answer whose ref is neither #1..#N nor
\* W1..W10 is reported in an orphan-citation note and in feedbackForSynthesis.
C8_EveryOrphanReported ==
    vOut # <<>> =>
        \A ref \in CitationsAnywhere(vIn[1].answer) :
            IsOrphanRef(vIn[1].contextBlocks, ref) =>
                /\ ReportedAsOrphan(vOut[1].validationNotes, ref)
                /\ ReportedAsOrphan(vOut[1].feedbackForSynthesis, ref)

\* C8, for the citations the validator tracks: an orphan ref that ends a
\* stepwise line is reported
C8_TrailingOrphansReported ==
    vOut # <<>> =>
        \A j \in DOMAIN vIn[1].answer :
            LET l == vIn[1].answer[j]
            IN (IsCitedStep(l) /\ IsOrphanRef(vIn[1].contextBlocks, Last(l))) =>
                  /\ ReportedAsOrphan(vOut[1].validationNotes, Last(l))
                  /\ ReportedAsOrphan(vOut[1].feedbackForSynthesis, Last(l))

\* C9: `validated` begins with the answer unchanged, and the
\* "[Validation Notes]" block follows it exactly when the validator's findings
\* together with the notes passed in are not empty.
C9_ValidationAnnotates ==
    vOut # <<>> =>
        LET answer   == vIn[1].answer
            out      == vOut[1].validated
            combined == ValidatorFindings(answer, vIn[1].contextBlocks) \o vIn[1].notes
        IN /\ Len(out) >= Len(answer)
           /\ SubSeq(out, 1, Len(answer)) = answer
           /\ combined = <<>> => out = answer
           /\ combined # <<>> =>
                 /\ Len(out) = Len(answer) + 2 + Len(combined)
                 /\ out[Len(answer) + 2] = <<"[Validation Notes]">>
                 /\ \A k \in DOMAIN combined :
                       out[Len(answer) + 2 + k] = <<"-">> \o combined[k]

\* C9 witness: the validator found nothing itself, and the synthesis notes
\* passed in were appended to an answer left as it was
C9_Witness ==
    /\ vOut # <<>>
    /\ vIn[1].answer # <<>>
    /\ ValidatorFindings(vIn[1].answer, vIn[1].contextBlocks) = <<>>
    /\ vIn[1].notes # <<>>
    /\ Len(vOut[1].validated) > Len(vIn[1].answer)

\* C10: the citations processQuery returns are one per context block of the
\* retrieval result, in retrieval order, the i-th with ref "#i" and the
\* block's id, title and source, whatever the answer says and however many
\* iterations ran.
C10_PositionalCitations ==
    (Responded /\ calls.processQuery = "returned") =>
        LET blocks == retrieval[1].contextBlocks
            cites  == response[1].citations
        IN /\ retrieval # <<>>
           /\ Len(cites) = Len(blocks)
           /\ \A i \in DOMAIN cites :
                 cites[i] = [ref |-> DocRef(i), id |-> blocks[i].id,
                             title |-> blocks[i].title, source |-> blocks[i].source]

\* C10 witness: two iterations ran, the answer returned cites [#9] and the
\* citations are those of the two blocks retrieved
C10_Witness ==
    /\ Responded
    /\ calls.processQuery = "returned"
    /\ calls.started >= 2
    /\ synthesis = <<[answer |-> AnsOrphan,
                      synthesisNotes |-> SynthesisNotes(AnsOrphan, retrieval[1].knowledgeGaps)]>>
    /\ Len(response[1].citations) = 2


\* C11: when the nearest match is at or above the threshold but carries no
\* kvKey, or its kvKey has no record in the KV store, the lookup returns not
\* found and writes nothing, and the chat request goes through processQuery.
C11_DanglingPointerIsMiss ==
    (/\ lastOp.op = "lookup"
     /\ lastOp.exactMatch = <<>>
     /\ lastOp.sem.matches # <<>>
     /\ lastOp.sem.matches[1].score >= CORRECTION_MATCH_THRESHOLD
     /\ lastOp.semTarget = <<>>) =>
        /\ ~lastOp.result.found
        /\ ~lastOp.wrote
        /\ pc # "idle" =>
              /\ cacheHit = lastOp.result
              /\ calls.processQuery # "none"
              /\ Responded => response[1].source = "rag"

\* C11 witness: the record behind the nearest match had been deleted, and the
\* request was answered by the pipeline
C11_Witness ==
    /\ Responded
    /\ lastOp.op = "lookup"
    /\ lastOp.exactMatch = <<>>
    /\ lastOp.sem.matches # <<>>
    /\ lastOp.sem.matches[1].score >= CORRECTION_MATCH_THRESHOLD
    /\ lastOp.sem.matches[1].metadata.kvKey # <<>>
    /\ lastOp.semTarget = <<>>
    /\ calls.processQuery = "returned"

\* C12: when the KV store or the vector index is not provisioned, a lookup
\* returns {found: false, confidence: 0}, a store returns a failure, and neither
\* makes an embedding call, a KV access or a vector-index access.
C12_UnprovisionedIsNoOp ==
    (~env.CORRECTION_QA_KV \/ ~env.CORRECTION_QA_INDEX) =>
        /\ kv = EmptyKV
        /\ index = EmptyIndex
        /\ lastOp.op = "lookup" =>
              /\ ~lastOp.result.found
              /\ lastOp.result.confidence = 0
              /\ lastOp.result.correction = <<>>
              /\ lastOp.used = {}
              /\ ~lastOp.wrote
        /\ lastOp.op = "store" =>
              /\ ~lastOp.result.success
              /\ lastOp.used = {}
              /\ ~lastOp.wrote

\* C12 witness: a store was refused where the KV store is there and the index
\* is not
C12_Witness ==
    /\ env.CORRECTION_QA_KV
    /\ ~env.CORRECTION_QA_INDEX
    /\ lastOp.op = "store"
    /\ ~lastOp.result.success
    /\ lastOp.used = {}

\* the vector-index entries written for the correction under a KV key
EntriesFor(idx, key) == {v \in DOMAIN idx : idx[v] # <<>> /\ v.id = key.id}

\* C13: in every reachable state each correction in the KV store has at least
\* one vector-index entry, and all entries written for it carry its KV key as
\* kvKey; states left by a store that returned success = false included.
C13_EveryCorrectionIndexed ==
    \A key \in CacheKeys :
        kv[key] # <<>> =>
            /\ EntriesFor(index, key) # {}
            /\ \A v \in EntriesFor(index, key) : index[v][1].kvKey = <<key>>

\* C13, the part that holds: whatever entries the index has for a correction
\* point at that correction's KV key
C13_EntriesShareKvKey ==
    \A key \in CacheKeys :
        \A v \in EntriesFor(index, key) : index[v][1].kvKey = <<key>>

\* the phrasings recorded in a correction: its question, then its variants
Phrasings(correction) == <<correction.originalQuestion>> \o correction.questionVariants

\* the index has an entry of its own for the n-th phrasing of the correction
\* under key: id = hash for the question, hash_v{n} for a variant
HasOwnEntry(idx, key, phrasing, n) ==
    \E v \in EntriesFor(idx, key) :
        /\ idx[v][1].questionPreview = phrasing
        /\ idx[v][1].kvKey = <<key>>
        /\ (n = 1) = (v.v = 0)

\* C14: after successful stores for one normalized question, every phrasing
\* recorded in the entry, the question and each of its questionVariants, has its
\* own vector-index entry pointing at the entry's KV key.
C14_EveryPhrasingIndexed ==
    \A key \in CacheKeys :
        (kv[key] # <<>> /\ clean[key]) =>
            LET phrasings == Phrasings(kv[key][1].val)
            IN \A n \in DOMAIN phrasings : HasOwnEntry(index, key, phrasings[n], n)

\* C14, the part that holds: right after a successful store, the phrasings of
\* that submission have their entries
C14_SubmittedPhrasingsIndexed ==
    (lastOp.op = "store" /\ lastOp.result.success) =>
        LET submitted == <<lastOp.feedback.originalQuery>> \o lastOp.feedback.questionVariants
            key       == KeyOfQuery(lastOp.feedback.originalQuery)
        IN \A n \in DOMAIN submitted :
              \E v \in EntriesFor(index, key) :
                  /\ index[v][1].questionPreview = submitted[n]
                  /\ v.v = n - 1

\* a correction that was deleted and not stored again: its vector entries are
\* still there and its KV record is gone (a store writes the record before the
\* entries, and only a delete removes a record)
Deleted(key) == kv[key] = <<>> /\ EntriesFor(index, key) # {}

\* the key the nearest neighbour of a lookup points at, if it points at one
NeighbourKey(sem) ==
    IF sem.matches # <<>> THEN sem.matches[1].metadata.kvKey ELSE <<>>

DeleteStep ==
    lastOp'.op = "delete" =>
        /\ index' = index
        /\ KVGet(kv', correctionCacheKey(lastOp'.id)) = <<>>
        /\ \A k \in CacheKeys : k # correctionCacheKey(lastOp'.id) => kv'[k] = kv[k]

\* what reads answer while a record is absent: get answers null, a lookup
\* never returns a correction whose record was absent, and a lookup whose
\* exact key and nearest neighbour both have no record is a miss
AbsentIsNotServed ==
    /\ (lastOp.op = "get" /\ kv[correctionCacheKey(lastOp.id)] = <<>>)
          => lastOp.result = <<>>
    /\ (lastOp.op = "lookup" /\ lastOp.result.found) =>
          \/ /\ lastOp.exactMatch # <<>>
             /\ lastOp.result.correction[1].id = lastOp.exactMatch[1].id
          \/ /\ lastOp.exactMatch = <<>>
             /\ lastOp.semTarget # <<>>
             /\ lastOp.result.correction[1].id = lastOp.semTarget[1].id
    /\ (lastOp.op = "lookup" /\ lastOp.exactMatch = <<>> /\ lastOp.semTarget = <<>>)
          => (~lastOp.result.found /\ ~lastOp.wrote)

CompletedHits == {p \in Lookups : lk[p].pc = "hit"}
InFlight      == {p \in Lookups : lk[p].pc = "read"}

\* C16: after k completed hits on one correction, with no store or delete in
\* between and no lookup left in flight, its stored timesReused has grown by
\* exactly k (it was 0 when the correction was stored), under any interleaving.
C16_EveryHitCounted ==
    InFlight = {} =>
        kv[KeyOfQuery(QueryB)][1].val.timesReused = Cardinality(CompletedHits)

\* C16, the part that holds: a put stores the count its own get read, plus one
C16_HitAddsOneToWhatItRead ==
    [][\A p \in Lookups :
         (lk[p].pc = "read" /\ lk'[p].pc = "hit") =>
            kv'[lk[p].key[1]][1].val.timesReused = lk[p].read[1].timesReused + 1]_vars

\* C17: every write of a CorrectionEntry to the KV store carries the configured
\* TTL, so in every reachable state each stored correction has an expiry.
C17_EveryRecordExpires ==
    \A key \in CacheKeys : kv[key] # <<>> => kv[key][1].ttl = <<TtlSeconds>>

\* C17, the part that holds: the write of a store carries the TTL
C17_StoreWritesTtl ==
    (lastOp.op = "store" /\ lastOp.stored # <<>>) =>
        kv[KeyOfQuery(lastOp.feedback.originalQuery)][1].ttl = <<TtlSeconds>>

\* a payload with its three required fields
Complete(body) ==
    /\ body.originalQuery # <<>>
    /\ body.wrongAnswer # <<>>
    /\ body.correctAnswer # <<>>

\* what a submission left behind: a rejection answers 400 to an incomplete
\* body, a store was given a complete one, and every record holds its three fields
SubmissionsValidated ==
    /\ lastOp.op = "rejected" => (~Complete(lastOp.body) /\ lastOp.status = 400)
    /\ lastOp.op = "store" => Complete(lastOp.feedback)
    /\ \A key \in CacheKeys :
          kv[key] # <<>> =>
             /\ kv[key][1].val.originalQuestion # <<>>
             /\ kv[key][1].val.wrongAnswer # <<>>
             /\ kv[key][1].val.correctAnswer # <<>>

\* a submission step writes to the KV store or the index only with a complete body
SubmissionStep ==
    (lastOp' # lastOp /\ lastOp'.op \in {"rejected", "store"}) =>
        \/ lastOp'.op = "store" /\ Complete(lastOp'.feedback)
        \/ lastOp'.op = "rejected" /\ ~Complete(lastOp'.body)
              /\ kv' = kv /\ index' = index

\* C18: a correction submission that lacks any of originalQuery, wrongAnswer or
\* correctAnswer is rejected with an error response and writes nothing to the
\* correction KV store or the vector index; writes happen only for a payload
\* that is complete.
C18_IncompleteSubmissionRejected == []SubmissionsValidated /\ [][SubmissionStep]_vars

\* C18 witness: a correction is stored, and a body with its question and no
\* wrong answer was then rejected, the stores as they were
C18_Witness ==
    /\ lastOp.op = "rejected"
    /\ lastOp.body.originalQuery # <<>>
    /\ lastOp.body.wrongAnswer = <<>>
    /\ lastOp.status = 400
    /\ \E key \in CacheKeys : kv[key] # <<>>

NoDuplicates(s) == \A i, j \in DOMAIN s : s[i] = s[j] => i = j

\* C19: on a repeated store for an existing correction, the resulting
\* questionVariants is the duplicate-free union of the previously stored variants
\* and the newly submitted ones: no stored variant is dropped, none appears twice.
C19_VariantsAreUnion ==
    (lastOp.op = "store" /\ lastOp.existing # <<>>) =>
        LET before    == lastOp.existing[1].questionVariants
            submitted == lastOp.feedback.questionVariants
            after     == lastOp.stored[1].questionVariants
        IN /\ Range(after) = Range(before) \cup Range(submitted)
           /\ NoDuplicates(after)
           /\ after = kv[KeyOfQuery(lastOp.feedback.originalQuery)][1].val.questionVariants

\* C19 witness: a repeated store that added a new variant to a stored one
C19_Witness ==
    /\ lastOp.op = "store"
    /\ lastOp.existing # <<>>
    /\ lastOp.existing[1].questionVariants = <<QueryC>>
    /\ lastOp.feedback.questionVariants = <<VariantD>>
    /\ lastOp.stored[1].questionVariants = <<QueryC, VariantD>>

\* a repeated store whose variant was already stored: it is not stored twice
C19_DuplicateSubmitted ==
    /\ lastOp.op = "store"
    /\ lastOp.existing # <<>>
    /\ lastOp.existing[1].questionVariants = <<QueryC>>
    /\ lastOp.feedback.questionVariants = <<QueryC>>
    /\ lastOp.stored[1].questionVariants = <<QueryC>>

\* C20: normalizeQuery is idempotent, normalizeQuery(normalizeQuery(x)) =
\* normalizeQuery(x), so a query and its normalized form map to the same
\* correction key.
C20_NormalizeIdempotent ==
    nOut # <<>> =>
        /\ normalizeQuery(nOut[1]) = nOut[1]
        /\ correctionCacheKey(hashString(normalizeQuery(nOut[1])))
             = correctionCacheKey(hashString(normalizeQuery(nIn)))

\* C20 witness: a query in upper case with punctuation and a stop word, whose
\* normalized form is another, non-empty string
C20_Witness ==
    /\ nOut # <<>>
    /\ nOut[1] # <<>>
    /\ nOut[1] # nIn
    /\ \E i \in DOMAIN nIn : nIn[i] \in Punctuation
    /\ \E i \in DOMAIN nIn : nIn[i] = "a"
    /\ \E i \in DOMAIN nIn : nIn[i] = "S"

\* the stepwise lines of the answer a call was given
StepLines == SelectSeq(QVSteps(vIn[1].answer), IsStepwise)

\* a stepwise line that carries no citation token
CarriesNoCitation(l) == AllMatches(l) = <<>>

\* a stepwise line with a citation token that is not at its end, or with
\* more than one citation token
CitationNotTrailingOrSeveral(l) ==
    /\ AllMatches(l) # <<>>
    /\ (~IsCitation(Last(l)) \/ Len(AllMatches(l)) > 1)

\* the validator reported n under the heading, or nothing under it when n = 0
Reported(heading, n) ==
    IF n = 0
    THEN ~\E i \in DOMAIN vOut[1].validationNotes : vOut[1].validationNotes[i][1] = heading
    ELSE \E i \in DOMAIN vOut[1].validationNotes :
            vOut[1].validationNotes[i] = <<heading, ToString(n)>>

\* C27: of the lines matching the stepwise pattern, those with no citation
\* token are counted as uncited steps, and those with a citation token that is
\* not at the line's end, or with more than one citation token, are counted as
\* malformed citations.
C27_StepsClassified ==
    vOut # <<>> =>
        /\ Reported("Uncited steps:", Len(SelectSeq(StepLines, CarriesNoCitation)))
        /\ Reported("Malformed citations:", Len(SelectSeq(StepLines, CitationNotTrailingOrSeveral)))

\* C27, the part that holds: the uncited count is the number of stepwise lines
\* that do not end with a citation token, the malformed count the number of
\* those that end with one and carry another
C27_CountedByLastToken ==
    vOut # <<>> =>
        LET EndsWithout(l)  == ~(l # <<>> /\ IsCitation(Last(l)))
            EndsWithMore(l) == l # <<>> /\ IsCitation(Last(l)) /\ Len(AllMatches(l)) > 1
        IN /\ Reported("Uncited steps:", Len(SelectSeq(StepLines, EndsWithout)))
           /\ Reported("Malformed citations:", Len(SelectSeq(StepLines, EndsWithMore)))

\* the feedback step of an iteration: with the validation result the
\* orchestrator holds, another iteration starts exactly when its
\* feedbackForSynthesis is non-empty and the bound is not reached; otherwise
\* processQuery returns, and no stage is called in that step
FeedbackStep ==
    pc = "WebValidating" =>
        LET fb      == validation'[1].feedbackForSynthesis
            inBound == 2 * (iter + 1) < MAX_ITER2
        IN /\ (pc' = "Synthesizing") <=> (fb # <<>> /\ inBound)
           /\ pc' = "Synthesizing" => (iter' = iter + 1 /\ feedback' = fb)
           /\ ~(fb # <<>> /\ inBound) =>
                 /\ pc' = "responded"
                 /\ calls'.processQuery = "returned"
           /\ calls'.synthesis = calls.synthesis
           /\ calls'.validation = calls.validation

\* an iteration runs the synthesizer and the validator once each at most
OneCallPerIteration ==
    /\ calls.synthesis <= calls.started
    /\ calls.validation <= calls.started
    /\ (Responded /\ calls.processQuery = "returned" /\ feedback = <<>> /\ validation # <<>>)
          => validation[1].feedbackForSynthesis = <<>> \/ 2 * calls.started >= MAX_ITER2

\* C28: after each validation the orchestrator starts another synthesis
\* iteration if and only if feedbackForSynthesis is non-empty and the iteration
\* bound has not been reached; with no feedback it is done at once, without
\* another synthesis or validation call.
C28_LoopsOnFeedbackOnly == []OneCallPerIteration /\ [][FeedbackStep]_vars

\* C28 witness: a second iteration was started because the first validation
\* left feedback
C28_Witness ==
    /\ pc = "Synthesizing"
    /\ iter = 1
    /\ validation # <<>>
    /\ validation[1].feedbackForSynthesis # <<>>
    /\ feedback = validation[1].feedbackForSynthesis

\* the lines of the feedback block the synthesizer was last called with
SynthBlock == SubSeq(calls.synthInput[1], 2, Len(calls.synthInput[1]))

\* every entry of the feedback fb is a line of the block
BlockCarries(fb) ==
    \A i \in DOMAIN fb : \E j \in DOMAIN SynthBlock : SynthBlock[j] = <<"-">> \o fb[i]

\* the synthesizer has been called in this iteration, nothing has been decided since
SynthesizerCalled ==
    pc \in {"Validating", "WebValidating"} /\ calls.synthInput # <<>>

C29_LatestFeedbackOnly ==
    SynthesizerCalled =>
        /\ calls.synthInput[1][1] = query
        /\ calls.started = 1 => SynthBlock = <<>>
        /\ calls.started > 1 =>
              /\ feedback # <<>>
              /\ SynthBlock = <<<<>>, <<"[Validation Feedback]">>>>
                               \o [i \in 1..Len(feedback) |-> <<"-">> \o feedback[i]]

\* ---- pickContext
Selected == sel[1].selected
DocIds(chunks) == {chunks[i].docId : i \in DOMAIN chunks} \ {""}
EveryCandidateRanked ==
    /\ Len(sel[1].reranked) = Len(sel[1].candidates)
    /\ {sel[1].reranked[i].index + 1 : i \in DOMAIN sel[1].reranked} = DOMAIN sel[1].candidates

\* C21: whatever the candidates, the reranker's output and topRerank are, the
\* list pickContext returns holds at most PER_DOC_CAP (2) chunks of one docId,
\* the distinct-source pass included.
C21_PerDocCap ==
    (sel # <<>> /\ sel[1].called) =>
        \A d \in DocIds(Selected) : DocCount(Selected, d) <= PER_DOC_CAP

\* C21, what the code gives: the cap holds for a document whose id is not a
\* name that docCounts inherits
C21_PerDocCapOwnNames ==
    (sel # <<>> /\ sel[1].called) =>
        \A d \in DocIds(Selected) \ ObjectPrototypeKeys : DocCount(Selected, d) <= PER_DOC_CAP

\* three chunks of one document were ranked, there was room for three, and
\* two of them were returned
C21_CapApplied ==
    /\ sel # <<>> /\ sel[1].called
    /\ sel[1].topRerank = 3
    /\ EveryCandidateRanked
    /\ DocCount(sel[1].candidates, "A") = 3
    /\ DocCount(Selected, "A") = PER_DOC_CAP

\* C22: candidates from at least two documents and topRerank >= 2: the
\* selected chunks come from at least MIN_DISTINCT_DOCS (2) documents,
\* whatever the rerank scores are.  (Stated for a reranker that scores every
\* candidate once and for candidates that all carry a docId.)
C22_TwoDocumentsSelected ==
    (/\ sel # <<>> /\ sel[1].called
     /\ EveryCandidateRanked
     /\ \A i \in DOMAIN sel[1].candidates : sel[1].candidates[i].docId # ""
     /\ Cardinality(DocIds(sel[1].candidates)) >= 2
     /\ sel[1].topRerank >= 2)
        => Cardinality(DocIds(Selected)) >= MIN_DISTINCT_DOCS

\* C22, what the code gives: a second document is selected when the first
\* loop reaches it before the list is full
C22_TwoDocumentsWhenRoom ==
    (/\ sel # <<>> /\ sel[1].called
     /\ EveryCandidateRanked
     /\ Cardinality(DocIds(sel[1].candidates)) >= 2
     /\ sel[1].topRerank >= Len(sel[1].candidates))
        => Cardinality(DocIds(Selected)) >= MIN_DISTINCT_DOCS

\* the distinct-source pass never adds a chunk: what pickContext returns is
\* what the first loop selected
C22_DistinctPassAddsNothing ==
    (sel # <<>> /\ sel[1].called /\ sel[1].candidates # <<>>) =>
        Selected = SelectLoop(Sorted(sel[1].candidates, sel[1].reranked), 1, <<>>,
                              sel[1].topRerank)

\* ---- retrieval that finds nothing
ReturnedOnNoContext ==
    /\ Responded
    /\ calls.processQuery = "returned"
    /\ retrieval # <<>>
    /\ retrieval[1].contextBlocks = <<>>

Retrieved == ret # <<>> /\ ret[1].called
RetOut    == ret[1].out[1]
FusedIds  == [i \in DOMAIN RetOut.fused |-> RetOut.fused[i].item]
Listed    == UNION {Range(l) : l \in Range(RetOut.perQueryResults)}

RECURSIVE SumOver(_, _)
SumOver(f, S) ==
    IF S = {} THEN 0 ELSE LET x == CHOOSE y \in S : TRUE IN f[x] + SumOver(f, S \ {x})

\* the sum, over the lists that hold id, of 1/(60 + rank + 1), rank from 0
ReciprocalRankSum(id) ==
    LET lists == RetOut.perQueryResults
        hits  == {p \in (DOMAIN lists) \X (1..MaxListLen) :
                     p[2] \in DOMAIN lists[p[1]] /\ lists[p[1]][p[2]] = id}
    IN SumOver([p \in hits |-> RrfScale \div (60 + (p[2] - 1) + 1)], hits)

\* C23: fusion yields one candidate per distinct id, scored with the sum of
\* 1/(60 + rank + 1) over the lists that hold it (rank 0-based); the
\* candidates come out in non-increasing score, cut to the best topK (20 in
\* the agent), and the order does not depend on anything but the lists: the
\* same lists fused again, in whatever order the queries settled, give it.
C23_ReciprocalRankFusion ==
    Retrieved =>
        /\ \A i, j \in DOMAIN FusedIds : i # j => FusedIds[i] # FusedIds[j]
        /\ Range(FusedIds) \subseteq Listed
        /\ Len(FusedIds) = Min(ret[1].topK, Cardinality(Listed))
        /\ \A i \in DOMAIN FusedIds : RetOut.fused[i].score = ReciprocalRankSum(FusedIds[i])
        /\ \A i \in 1..(Len(FusedIds) - 1) : RetOut.fused[i].score >= RetOut.fused[i + 1].score
        /\ \A id \in Listed \ Range(FusedIds) :
              \A i \in DOMAIN FusedIds : ReciprocalRankSum(id) <= RetOut.fused[i].score
        /\ \A order \in AllOrders(Len(ret[1].fails)) :
              EmbedQueryFuse([ret[1] EXCEPT !.settled = order], ret[1].topK).fused = RetOut.fused

\* an id found by two lists was merged, and an id was cut off by topK
C23_Witness ==
    /\ Retrieved
    /\ \E id \in Range(FusedIds) :
          Cardinality({i \in DOMAIN RetOut.perQueryResults :
                          id \in Range(RetOut.perQueryResults[i])}) = 2
    /\ Cardinality(Listed) > ret[1].topK
    /\ ret[1].settled # [i \in DOMAIN ret[1].settled |-> i]

Failing == {i \in DOMAIN ret[1].fails : ret[1].fails[i]}

\* C24: a variant whose embedding fails is dropped: the embedding is not
\* tried again, the vector index is not queried for it and no list of it is
\* fused, while the other variants are queried and fused.
C24_FailedVariantDropped ==
    Retrieved =>
        /\ \A i \in Failing :
              /\ RetOut.attempts[i] = 1
              /\ i \notin Range(RetOut.queried)
        /\ Len(RetOut.perQueryResults) = Len(ret[1].fails) - Cardinality(Failing)
        /\ \A i \in DOMAIN ret[1].fails \ Failing : i \in Range(RetOut.queried)

\* C24, what the code gives: the embedding of a failing variant is tried
\* MAX_RETRIES times, a vector of zeros stands in for it, the index is queried
\* with it and what the index answers is fused with the other lists
C24_FailedVariantQueriedWithZeros ==
    Retrieved =>
        /\ \A i \in Failing :
              /\ RetOut.attempts[i] = MAX_RETRIES
              /\ RetOut.vectors[i] = [length |-> EMBED_DIM, zeros |-> TRUE]
        /\ RetOut.queried = [i \in DOMAIN ret[1].fails |-> i]
        /\ RetOut.perQueryResults = ret[1].lists

\* C25: when the embedding fails for every variant, the original included,
\* the request does not go on to synthesis: the caller gets an error.
C25_NoEmbeddingIsError ==
    (Retrieved /\ ret[1].caller = "execute" /\ Failing = DOMAIN ret[1].fails) =>
        /\ RetOut.threw
        /\ RetOut.proceeds = "error"

\* C25, what the code gives: execute returns a result and processQuery goes
\* on to synthesis with it
C25_NoEmbeddingStillSynthesizes ==
    (Retrieved /\ ret[1].caller = "execute" /\ Failing = DOMAIN ret[1].fails) =>
        /\ ~RetOut.threw
        /\ RetOut.result # <<>>
        /\ RetOut.proceeds = "synthesis"

Position(l, id) == CHOOSE i \in DOMAIN l : l[i] = id

Tied(i, j) == i < j /\ RetOut.fused[i].score = RetOut.fused[j].score

\* the list of the variant that retrieved more than every other one, if any
HighestRecall ==
    {RetOut.perQueryResults[v] : v \in
        {v \in DOMAIN RetOut.perQueryResults :
            \A w \in DOMAIN RetOut.perQueryResults \ {v} :
                Len(RetOut.perQueryResults[w]) < Len(RetOut.perQueryResults[v])}}

\* C30: two fused candidates with equal scores come out in their first-seen
\* order, taken from the list of the highest-recall variant.
C30_TieOrderFromHighestRecall ==
    Retrieved =>
        \A i, j \in DOMAIN FusedIds :
            Tied(i, j) =>
                \A l \in HighestRecall :
                    {FusedIds[i], FusedIds[j]} \subseteq Range(l)
                        => Position(l, FusedIds[i]) < Position(l, FusedIds[j])

\* C30, what the code gives: ties come out in the order in which the ids were
\* first seen while the lists were read one after the other, the list of the
\* original query first
C30_TieOrderFirstSeen ==
    Retrieved =>
        \A i, j \in DOMAIN FusedIds :
            Tied(i, j) =>
                Position(Concat(RetOut.perQueryResults), FusedIds[i])
                    < Position(Concat(RetOut.perQueryResults), FusedIds[j])

\* ---- what reads leave behind
ReadOnlyStep ==
    \/ lastOp'.op = "get"
    \/ lastOp'.op = "lookup" /\ ~lastOp'.result.found

WritingStep ==
    \/ lastOp'.op \in {"store", "delete"}
    \/ lastOp'.op = "lookup" /\ lastOp'.result.found

\* C38: a lookup that answers found = false, whatever the reason, and every
\* getCorrectionById leave the KV store and the vector index as they were;
\* the cache changes only in a lookup hit, a store or a delete.
C38_MissesAndGetsWriteNothing ==
    [][/\ ReadOnlyStep => (kv' = kv /\ index' = index)
       /\ (kv' # kv \/ index' # index) => WritingStep]_vars

\* a lookup over a store that holds a record found a match at the threshold
\* whose pointer leads nowhere, and answered found = false
C38_Witness ==
    /\ lastOp.op = "lookup"
    /\ ~lastOp.result.found
    /\ lastOp.indexQueried
    /\ lastOp.sem.matches # <<>>
    /\ AcceptScore(lastOp.sem.matches[1].score)
    /\ \E k \in DOMAIN kv : kv[k] # <<>>

\* ---- what makes the validator ask for a new synthesis
\* C33: feedbackForSynthesis is non-empty exactly when the validator made a
\* finding of its own (validationNotes holds more than the notes passed in);
\* the synthesis notes passed in never produce feedback by themselves, and
\* when there is feedback they are its last lines.
C33_FeedbackOnOwnFindingsOnly ==
    vOut # <<>> =>
        LET fb    == vOut[1].feedbackForSynthesis
            notes == vIn[1].notes
        IN /\ fb # <<>> <=> Len(vOut[1].validationNotes) > Len(notes)
           /\ fb # <<>> =>
                 /\ fb[1] = <<"Validation feedback:">>
                 /\ SubSeq(fb, Len(fb) - Len(notes) + 1, Len(fb)) = notes

\* notes were passed in, the validator found nothing, and there is no feedback
C33_Witness ==
    /\ vOut # <<>>
    /\ vIn[1].notes # <<>>
    /\ vIn[1].answer # <<>>
    /\ vOut[1].validationNotes = vIn[1].notes
    /\ vOut[1].feedbackForSynthesis = <<>>

Content(correction) ==
    [correctAnswer |-> correction.correctAnswer, wrongAnswer |-> correction.wrongAnswer,
     questionVariants |-> correction.questionVariants]

\* C37: once a store or delete of a key has completed and no newer store or
\* delete of it ran, no state holds a record for the deleted key, nor content
\* other than what that store wrote, whatever lookups were in flight.
C37_WriteBackUndoesNothing ==
    /\ lastOp.op = "delete" => kv[lastOp.key] = <<>>
    /\ lastOp.op = "store" =>
          /\ kv[lastOp.key] # <<>>
          /\ Content(kv[lastOp.key][1].val) = Content(lastOp.stored[1])

\* C37, the part that holds: a write-back changes nothing but the counters of
\* the record its own get read
C37_WriteBackOfOwnRead ==
    [][\A p \in Lookups :
         (lk[p].pc = "read" /\ lk'[p].pc = "hit") =>
            /\ Content(kv'[lk[p].key[1]][1].val) = Content(lk[p].read[1])
            /\ index' = index]_vars

\* ---- the concurrent calls of one retrieval
\* C35: when the lists are fused every embedding call and every vector query
\* has delivered its result, the lists stand in the order of the variants
\* that were queried (original query first), and no order in which the calls
\* complete changes anything the retrieval computes.
C35_FusionAfterAllInVariantOrder ==
    Retrieved =>
        /\ Len(RetOut.vectors) = Len(ret[1].fails)
        /\ \A i \in DOMAIN RetOut.vectors : RetOut.vectors[i] = EmbedOrEmpty(ret[1].fails[i])
        /\ \A i, j \in DOMAIN RetOut.queried : i < j => RetOut.queried[i] < RetOut.queried[j]
        /\ Len(RetOut.perQueryResults) = Len(RetOut.queried)
        /\ \A i \in DOMAIN RetOut.queried :
              RetOut.perQueryResults[i] = ret[1].lists[RetOut.queried[i]]
        /\ RetOut.fused = FusedCandidates(RetOut.perQueryResults, ret[1].topK)
        /\ \A order \in AllOrders(Len(ret[1].fails)) :
              LET o == EmbedQueryFuse([ret[1] EXCEPT !.settled = order], ret[1].topK)
              IN /\ o.vectors = RetOut.vectors
                 /\ o.perQueryResults = RetOut.perQueryResults
                 /\ o.fused = RetOut.fused

\* the expansion's calls completed before the original query's, the two lists
\* differ, and the original query's list was still fused first
C35_Witness ==
    /\ Retrieved
    /\ Len(ret[1].settled) = 2 /\ ret[1].settled[1] = 2
    /\ Len(RetOut.perQueryResults) = 2
    /\ ret[1].lists[1] # ret[1].lists[2]
    /\ ret[1].lists[1] # <<>> /\ ret[1].lists[2] # <<>>
    /\ FusedIds[1] = ret[1].lists[1][1]

\* ---- the web validation and the loop
\* the validation result without the notes earlier web validations pushed
WithoutWebNotes(v) ==
    IF v = <<>> THEN v
    ELSE <<[v[1] EXCEPT !.validationNotes = SelectSeq(@, LAMBDA n : n # WebNoMatch)]>>

\* what a run shows of the loop: the feedback for the next iteration, the
\* iterations executed and the answer and citations if it returned
LoopOutcome(v, fb, i, returned) ==
    [feedback   |-> fb,
     iterations |-> i,
     returned   |-> returned,
     answer     |-> IF returned THEN FinalAnswer(v) ELSE <<>>,
     citations  |-> IF returned THEN FinalCitations(retrieval) ELSE <<>>]

\* the outcome of the web validation stage had it ended with w, on the
\* validation result v
OutcomeWith(v, w) ==
    LET pushed == WebNotesPushed(v, synthesis, w)
        fb     == NextFeedback(pushed)
    IN LoopOutcome(pushed, fb, calls.started,
                   fb = <<>> \/ ~LoopContinues(iter + 1, MAX_ITER2))

\* C34: at every web validation stage, whatever the web validator returns or
\* whether it throws, now or in the iterations before, the stage ends with
\* the same feedback, the same number of iterations executed and, when
\* processQuery returns, the same answer and citations.
C34_WebValidatorIndependent ==
    [][pc = "WebValidating" =>
         \A w \in WebOutcomes : \A v \in {validation, WithoutWebNotes(validation)} :
            OutcomeWith(v, w) =
               [feedback   |-> feedback',
                iterations |-> calls'.started,
                returned   |-> calls'.processQuery = "returned",
                answer     |-> IF response' # <<>> THEN response'[1].answer ELSE <<>>,
                citations  |-> IF response' # <<>> THEN response'[1].citations ELSE <<>>]]_vars

\* the web validator pushed its note in the first iteration and threw in the
\* second, and processQuery returned an answer after that
C34_Witness ==
    /\ calls.processQuery = "returned"
    /\ calls.started = 2
    /\ calls.web = 2
    /\ "web" \in calls.threw
    /\ validation # <<>>
    /\ WithoutWebNotes(validation) # validation
    /\ response[1].answer # <<>>

\* ---- embedTextSingle
Embedded == emb # <<>> /\ emb[1].called
EmbOut   == emb[1].out[1]
\* the attempts that end in the catch
FailedTry(a) == emb[1].tries[a] \in {"restInvalid", "restThrows", "aiThrows"}

\* C31: embedTextSingle makes at most 3 attempts, the first that yields a
\* valid vector being the last; after the failed attempt a that is not the
\* last it waits 2000 * 2^(a-1) ms (2000, then 4000); it does not throw, and
\* it returns the model's validated vector, the REST fallback's vector, or
\* the vector of 1024 zeros when all three attempts and the final REST call
\* have failed.
C31_EmbedTerminatesWithVector ==
    Embedded =>
        /\ EmbOut.attempts \in 1..3
        /\ \A a \in 1..(EmbOut.attempts - 1) : FailedTry(a)
        /\ EmbOut.attempts < 3 => ~FailedTry(EmbOut.attempts)
        /\ EmbOut.delays = [a \in 1..(EmbOut.attempts - 1) |-> IF a = 1 THEN 2000 ELSE 4000]
        /\ ~EmbOut.threw
        /\ EmbOut.vector.length > 0
        /\ EmbOut.from \in {"model", "rest", "zeros"}
        /\ EmbOut.from = "model" <=> emb[1].tries[EmbOut.attempts] = "valid"
        /\ EmbOut.from = "zeros" <=>
              (\A a \in 1..3 : FailedTry(a)) /\ emb[1].lastRest # "valid"
        /\ EmbOut.from = "zeros" => EmbOut.vector = [length |-> 1024, zeros |-> TRUE]
        /\ EmbOut.from # "zeros" => ~EmbOut.vector.zeros

\* two attempts failed, each in its own way, and were waited for; the third
\* failed too and the last REST call threw: the zero vector came back
C31_Witness ==
    /\ Embedded
    /\ emb[1].tries = <<"aiThrows", "restInvalid", "restThrows">>
    /\ emb[1].lastRest = "throws"
    /\ EmbOut.delays = <<2000, 4000>>
    /\ EmbOut.from = "zeros"

\* ---- the context window
WindowBuilt == win # <<>> /\ win[1].called /\ ~win[1].out[1].threw
Window      == win[1].out[1].window
WinTopics   == win[1].topics
\* the clusters, and the place of a candidate among those of its cluster
Clusters       == Range(WinTopics)
PlaceInCluster(c) == Cardinality({d \in 1..c : WinTopics[d] = WinTopics[c]})
FirstOf(t)     == CHOOSE c \in DOMAIN WinTopics :
                     WinTopics[c] = t /\ \A d \in 1..(c - 1) : WinTopics[d] # t
PerCluster     == 20 \div Cardinality(Clusters)
\* the blocks taken cluster by cluster
TakenByCluster == {c \in DOMAIN WinTopics : PlaceInCluster(c) <= PerCluster}

\* C32: the context window holds no id twice and at most 20 blocks; it starts
\* with up to floor(20 / clusters) blocks of each cluster, best first, the
\* clusters in the order of their best candidate, and goes on with the
\* candidates left, in rank order; so it holds min(20, candidates) blocks,
\* and at least one of every cluster.
C32_ContextWindow ==
    WindowBuilt =>
        /\ \A p, q \in DOMAIN Window : p # q => Window[p] # Window[q]
        /\ Len(Window) <= 20
        /\ Len(Window) = Min(20, Len(WinTopics))
        /\ \A t \in Clusters : \E p \in DOMAIN Window : WinTopics[Window[p]] = t
        /\ Len(WinTopics) > 0 =>
              LET head == Cardinality(TakenByCluster)
              IN /\ head <= Len(Window)
                 /\ {Window[p] : p \in 1..head} = TakenByCluster
                 /\ \A p, q \in 1..head : p < q =>
                       \/ FirstOf(WinTopics[Window[p]]) < FirstOf(WinTopics[Window[q]])
                       \/ WinTopics[Window[p]] = WinTopics[Window[q]] /\ Window[p] < Window[q]
                 /\ \A p, q \in (head + 1)..Len(Window) : p < q => Window[p] < Window[q]

\* twenty candidates in two clusters, nineteen of them in the first: ten of
\* the first cluster, the one of the second, then the nine left over
C32_Witness ==
    /\ WindowBuilt
    /\ Len(WinTopics) = 20
    /\ Cardinality(Clusters) = 2
    /\ WinTopics[19] = WinTopics[1] /\ WinTopics[20] # WinTopics[1]
    /\ Window[10] = 10 /\ Window[11] = 20 /\ Window[12] = 11 /\ Window[20] = 19

====
